---------------------------- MODULE Spec2Model ----------------------------
(***************************************************************************)
(* Model of the 10-K risk analysis code.                                   *)
(*                                                                         *)
(* Comparison: core/comparator.compare_filings (sorted greedy matching on  *)
(* difflib ratios), app.match_blocks (per-block greedy matching on title   *)
(* similarity) and functions/compare.compare_reports (best-match           *)
(* classification).                                                        *)
(*                                                                         *)
(* Analysis and storage: the Item 1A locators and segmenters of            *)
(* functions/, core/extractor and extractor, the Textract polling of       *)
(* core/extractor.extract_text_from_pdf, the local library of              *)
(* functions/storage and the S3 index of storage/store.                    *)
(*                                                                         *)
(* Texts are sequences of one-character strings.  Similarities are exact   *)
(* rationals <<num, den>> in lowest terms; 2.0*M/T and len/len are         *)
(* correctly rounded binary64 divisions, so two of them are equal or       *)
(* ordered as floats exactly as the rationals are.  List positions are     *)
(* 1-based here and 0-based in the code; the order of positions is the     *)
(* same.                                                                   *)
(***************************************************************************)
EXTENDS Integers, Sequences, FiniteSets, TLC

VARIABLES
    prior, latest,      \* the two block lists given to a comparer
    cfLast,             \* the last compare_filings call, with its locals
    mbLast,             \* the last match_blocks call
    crLast,             \* the last compare_reports call
    doc,                \* the text or document given to an extractor
    exLast,             \* the last extractor call
    library,            \* functions/storage: index.jsonl and the files on disk
    anLast,             \* the last "Run Analyze" of UI/page_analyze
    bucket,             \* storage/store: the S3 bucket (index and objects)
    workers,            \* storage/store: the add_record calls under way
    pdf                 \* core/extractor: the extract_text_from_pdf call

compareVars == <<prior, latest, cfLast, mbLast, crLast>>
textVars == <<doc, exLast>>
analyzeVars == <<library, anLast>>
storeVars == <<bucket, workers>>

vars == <<prior, latest, cfLast, mbLast, crLast, doc, exLast, library, anLast,
          bucket, workers, pdf>>

\* Marks "no call made yet" in cfLast, mbLast, crLast, exLast and anLast.
NoCall == [op |-> "none"]

\* The parts of the system a specification leaves untouched.
CompareIdle ==
    /\ prior = <<>>
    /\ latest = <<>>
    /\ cfLast = NoCall
    /\ mbLast = NoCall
    /\ crLast = NoCall

TextIdle == doc = <<>> /\ exLast = NoCall

AnalyzeIdle == library = [index |-> <<>>, files |-> <<>>] /\ anLast = NoCall

StoreIdle == bucket = [index |-> <<>>, objects |-> {}] /\ workers = <<>>

PdfIdle == pdf = [pc |-> "idle"]

\* A value that may be None: None is the empty tuple, any other value x is
\* the one-element tuple Some(x).
None == <<>>
Some(x) == <<x>>

-----------------------------------------------------------------------------
(* Bounds of the model *)

\* Longest block list given to compare_filings and match_blocks.
MaxBlocks == 2

\* F applied to the value of e, which is computed once and then named.
With(e, F(_)) == CHOOSE r \in {F(v) : v \in {e}} : TRUE

-----------------------------------------------------------------------------
(* Rationals *)

RECURSIVE Gcd(_, _)
Gcd(a, b) == IF b = 0 THEN a ELSE Gcd(b, a % b)

\* n/d in lowest terms, d > 0, n >= 0.
Frac(n, d) == LET g == Gcd(n, d) IN <<n \div g, d \div g>>

Pct(n) == Frac(n, 100)

RLt(x, y) == x[1] * y[2] < y[1] * x[2]
RLe(x, y) == x[1] * y[2] <= y[1] * x[2]
RGt(x, y) == RLt(y, x)
RGe(x, y) == RLe(y, x)

One == Frac(1, 1)
Zero == Frac(0, 1)

-----------------------------------------------------------------------------
(* Strings *)

\* str.lower() on the characters of the model.
LowerChar(c) == CASE c = "A" -> "a" [] c = "B" -> "b" [] OTHER -> c

Lower(s) == [i \in 1..Len(s) |-> LowerChar(s[i])]

IsSpace(c) == c = " "

\* s.split(): the maximal runs of non-space characters, in order.
RECURSIVE SplitFrom(_, _, _)
SplitFrom(s, i, word) ==
    IF i > Len(s) THEN (IF word = <<>> THEN <<>> ELSE <<word>>)
    ELSE IF IsSpace(s[i])
         THEN (IF word = <<>> THEN <<>> ELSE <<word>>) \o SplitFrom(s, i + 1, <<>>)
    ELSE SplitFrom(s, i + 1, Append(word, s[i]))

Split(s) == SplitFrom(s, 1, <<>>)

\* s.strip()
RECURSIVE LStrip(_)
LStrip(s) == IF s # <<>> /\ IsSpace(Head(s)) THEN LStrip(Tail(s)) ELSE s

RECURSIVE RStrip(_)
RStrip(s) ==
    IF s # <<>> /\ IsSpace(s[Len(s)]) THEN RStrip(SubSeq(s, 1, Len(s) - 1)) ELSE s

Strip(s) == RStrip(LStrip(s))

\* re.sub(r"\s+", " ", s): every run of spaces becomes one space.
RECURSIVE CollapseSpaces(_)
CollapseSpaces(s) ==
    IF s = <<>> THEN <<>>
    ELSE IF IsSpace(Head(s))
         THEN <<" ">> \o CollapseSpaces(LStrip(s))
    ELSE <<Head(s)>> \o CollapseSpaces(Tail(s))

\* " ".join(words)
RECURSIVE JoinSpace(_)
JoinSpace(words) ==
    IF words = <<>> THEN <<>>
    ELSE IF Len(words) = 1 THEN words[1]
    ELSE words[1] \o <<" ">> \o JoinSpace(Tail(words))

-----------------------------------------------------------------------------
(* difflib.SequenceMatcher(None, a, b).ratio(), no junk (texts shorter     *)
(* than 200 characters, so the autojunk heuristic is off).                 *)

\* Length of the common run of a from offset i and b from offset j (0-based),
\* inside a[..ahi) and b[..bhi).
RECURSIVE RunLen(_, _, _, _, _, _)
RunLen(a, b, i, j, ahi, bhi) ==
    IF i < ahi /\ j < bhi /\ a[i + 1] = b[j + 1]
    THEN 1 + RunLen(a, b, i + 1, j + 1, ahi, bhi)
    ELSE 0

\* find_longest_match: <<i, j, k>> with k maximal, then i minimal, then j
\* minimal; <<alo, blo, 0>> when nothing matches.
FindLongestMatch(a, b, alo, ahi, blo, bhi) ==
    LET starts == (alo..(ahi - 1)) \X (blo..(bhi - 1))
        len(p) == RunLen(a, b, p[1], p[2], ahi, bhi)
        hits == {p \in starts : len(p) > 0}
    IN  IF hits = {} THEN <<alo, blo, 0>>
        ELSE LET best == CHOOSE p \in hits :
                           \A q \in hits :
                              \/ len(p) > len(q)
                              \/ /\ len(p) = len(q)
                                 /\ \/ p[1] < q[1]
                                    \/ p[1] = q[1] /\ p[2] <= q[2]
             IN  <<best[1], best[2], len(best)>>

\* Sum of the sizes of get_matching_blocks(): the longest match, then the
\* pieces to its left and to its right.
RECURSIVE MatchedChars(_, _, _, _, _, _)
MatchedChars(a, b, alo, ahi, blo, bhi) ==
    IF alo >= ahi \/ blo >= bhi THEN 0
    ELSE LET m == FindLongestMatch(a, b, alo, ahi, blo, bhi)
         IN  IF m[3] = 0 THEN 0
             ELSE m[3]
                  + MatchedChars(a, b, alo, m[1], blo, m[2])
                  + MatchedChars(a, b, m[1] + m[3], ahi, m[2] + m[3], bhi)

\* ratio(): 2.0 * matches / length, and 1.0 for two empty strings.
Ratio(a, b) ==
    IF Len(a) + Len(b) = 0 THEN One
    ELSE Frac(2 * MatchedChars(a, b, 0, Len(a), 0, Len(b)), Len(a) + Len(b))

-----------------------------------------------------------------------------
(* Inputs *)

\* A risk block as the comparers read it.
Block(title, text) == [title |-> title, risk_text |-> text, risk_theme |-> "other"]

\* All lists of at most n elements of S.
RECURSIVE ListsUpTo(_, _)
ListsUpTo(S, n) ==
    IF n = 0 THEN {<<>>}
    ELSE LET shorter == ListsUpTo(S, n - 1)
         IN  shorter \cup {Append(l, x) : l \in {m \in shorter : Len(m) = n - 1}, x \in S}

\* risk_text values of the filings compared by compare_filings.
FilingTexts ==
    { <<"a", "b", "c">>, <<"a", "b", "d">>, <<"A", "b">>, <<"x">> }

FilingBlocks == {Block(t, t) : t \in FilingTexts}

\* risk_text values of the stored reports compared by the compare pages.
ReportTexts ==
    { <<"a", "b", "c">>, <<"a", "b", "d">>, <<" ", "A", " ", " ", "d">>, <<"x">> }

\* functions/compare._normalize
_normalize(text) == JoinSpace(Split(Lower(text)))

\* Every ratio the texts of the model can produce, computed once.
AllTexts == {Lower(t) : t \in FilingTexts \cup ReportTexts}
                \cup {_normalize(t) : t \in ReportTexts}

\* The function on S that maps each pair p to Ratio(p[1], p[2]), as an
\* explicit table.
RECURSIVE RatioTableOn(_)
RatioTableOn(S) ==
    IF S = {} THEN <<>>
    ELSE LET p == CHOOSE q \in S : TRUE
         IN  (p :> Ratio(p[1], p[2])) @@ RatioTableOn(S \ {p})

RatioTable == RatioTableOn(AllTexts \X AllTexts)

-----------------------------------------------------------------------------
(* core/comparator.py *)

\* _similarity: ratio of the lower-cased texts.
_similarity(a, b) == RatioTable[<<Lower(a), Lower(b)>>]

\* Ratios for which binary64 evaluates (1 - sim) * 100 just below the exact
\* integer (1 - 0.8 is 0.19999999999999996); the only such ratio with a
\* denominator up to 12.
FloatShortfall == {Frac(4, 5)}

\* int((1 - sim) * 100)
IntPctChange(sim) ==
    LET exact == (100 * (sim[2] - sim[1])) \div sim[2]
    IN  IF sim \in FloatShortfall THEN exact - 1 ELSE exact

DefaultSimThreshold == Pct(30)
DefaultIdenticalThreshold == Pct(95)
DefaultTopN == 15
NewScore == 90
RemovedScore == 85
MinModifiedScore == 5

\* Mutant of IsCandidate: the comparison turned round.
IsCandidateBelow(sim, sim_threshold) == RLt(sim, sim_threshold)

\* The candidate test of the pair loop.
IsCandidate(sim, sim_threshold) == RGt(sim, sim_threshold)

\* candidates, in the order the nested loops append them: <<sim, li, pi>>.
RECURSIVE CandidatesFrom(_, _, _, _, _)
CandidatesFrom(prior_blocks, latest_blocks, sim_threshold, li, pi) ==
    IF li > Len(latest_blocks) THEN <<>>
    ELSE IF pi > Len(prior_blocks)
         THEN CandidatesFrom(prior_blocks, latest_blocks, sim_threshold, li + 1, 1)
    ELSE LET sim == _similarity(latest_blocks[li].risk_text, prior_blocks[pi].risk_text)
             rest == CandidatesFrom(prior_blocks, latest_blocks, sim_threshold, li, pi + 1)
         IN  IF IsCandidate(sim, sim_threshold) THEN <<<<sim, li, pi>>>> \o rest ELSE rest

\* Tuple order of (sim, li, pi): x sorts strictly below y.
CandLt(x, y) ==
    \/ RLt(x[1], y[1])
    \/ x[1] = y[1] /\ x[2] < y[2]
    \/ x[1] = y[1] /\ x[2] = y[2] /\ x[3] < y[3]

\* Mutant of CandBefore: reverse=True forgotten.
CandBeforeAscending(x, y) == CandLt(x, y)

\* candidates.sort(reverse=True): descending tuple order.
CandBefore(x, y) == CandLt(y, x)

\* x put into the sorted list: after the elements that do not sort after it.
InsertCandidate(sorted, x) ==
    LET n == Cardinality({k \in 1..Len(sorted) : ~CandBefore(x, sorted[k])})
    IN  SubSeq(sorted, 1, n) \o <<x>> \o SubSeq(sorted, n + 1, Len(sorted))

\* The elements s[k..] put one by one into the sorted list acc.
RECURSIVE SortCandidatesFrom(_, _, _)
SortCandidatesFrom(s, k, acc) ==
    IF k > Len(s) THEN acc
    ELSE With(InsertCandidate(acc, s[k]), LAMBDA a : SortCandidatesFrom(s, k + 1, a))

SortCandidates(s) == With(s, LAMBDA v : SortCandidatesFrom(v, 1, <<>>))

\* Mutant of Accepts: the prior side is not checked.
AcceptsLatestOnly(li, pi, matched_latest, matched_prior) == li \notin matched_latest

\* The acceptance test of the greedy loop.
Accepts(li, pi, matched_latest, matched_prior) ==
    li \notin matched_latest /\ pi \notin matched_prior

\* The positions already matched; a match is <<li, pi, sim>>.
MatchedLatest(matches) == {matches[k][1] : k \in 1..Len(matches)}
MatchedPrior(matches) == {matches[k][2] : k \in 1..Len(matches)}

\* One turn of the greedy loop: matches with candidate c tried.
GreedyStep(c, matches) ==
    IF Accepts(c[2], c[3], MatchedLatest(matches), MatchedPrior(matches))
    THEN Append(matches, <<c[2], c[3], c[1]>>)
    ELSE matches

RECURSIVE GreedyMatchesFrom(_, _, _)
GreedyMatchesFrom(cands, k, matches) ==
    IF k > Len(cands) THEN matches
    ELSE With(GreedyStep(cands[k], matches), LAMBDA m : GreedyMatchesFrom(cands, k + 1, m))

\* The greedy loop over the sorted candidates: the matches, in the order
\* they are accepted.
GreedyMatches(cands) == GreedyMatchesFrom(cands, 1, <<>>)

\* A change record; latest_block and prior_block refer to a block by its
\* position in its list, Some(position), or are None.  (short_explanation, a display
\* string, is left out.)
Change(theme, type, score, lb, pb) ==
    [risk_theme |-> theme, change_type |-> type, change_score |-> score,
     latest_block |-> lb, prior_block |-> pb]

\* The NEW records, one per unmatched latest block from position i on.
RECURSIVE NewChanges(_, _, _)
NewChanges(latest_blocks, matched_latest, i) ==
    IF i > Len(latest_blocks) THEN <<>>
    ELSE (IF i \notin matched_latest
          THEN <<Change(latest_blocks[i].risk_theme, "NEW", NewScore, Some(i), None)>>
          ELSE <<>>)
         \o NewChanges(latest_blocks, matched_latest, i + 1)

\* The REMOVED records, one per unmatched prior block from position j on.
RECURSIVE RemovedChanges(_, _, _)
RemovedChanges(prior_blocks, matched_prior, j) ==
    IF j > Len(prior_blocks) THEN <<>>
    ELSE (IF j \notin matched_prior
          THEN <<Change(prior_blocks[j].risk_theme, "REMOVED", RemovedScore, None, Some(j))>>
          ELSE <<>>)
         \o RemovedChanges(prior_blocks, matched_prior, j + 1)

Max(a, b) == IF a >= b THEN a ELSE b

\* Mutant of IsModified: a pair at the threshold counted as changed too.
IsModifiedInclusive(sim, identical_threshold) == RLe(sim, identical_threshold)

\* The test of the MODIFIED loop.
IsModified(sim, identical_threshold) == RLt(sim, identical_threshold)

RECURSIVE ModifiedChanges(_, _, _)
ModifiedChanges(latest_blocks, matches, identical_threshold) ==
    IF matches = <<>> THEN <<>>
    ELSE LET m == Head(matches)
         IN  (IF IsModified(m[3], identical_threshold)
              THEN <<Change(latest_blocks[m[1]].risk_theme, "MODIFIED",
                            Max(IntPctChange(m[3]), MinModifiedScore),
                            Some(m[1]), Some(m[2]))>>
              ELSE <<>>)
             \o ModifiedChanges(latest_blocks, Tail(matches), identical_threshold)

\* order = {"NEW": 0, "REMOVED": 1, "MODIFIED": 2}
TypeOrder(type) == CASE type = "NEW" -> 0 [] type = "REMOVED" -> 1 [] type = "MODIFIED" -> 2

\* Mutant of ChangeBefore: score first, then change type.
ChangeBeforeScoreFirst(x, y) ==
    \/ x.change_score > y.change_score
    \/ /\ x.change_score = y.change_score
       /\ TypeOrder(x.change_type) < TypeOrder(y.change_type)

\* The sort key (order[change_type], -change_score): x sorts strictly before y.
ChangeBefore(x, y) ==
    \/ TypeOrder(x.change_type) < TypeOrder(y.change_type)
    \/ /\ TypeOrder(x.change_type) = TypeOrder(y.change_type)
       /\ x.change_score > y.change_score

\* list.sort(key=...) is stable: x, which comes later in the list, goes
\* after every element that does not sort after it.
InsertChange(sorted, x) ==
    LET n == Cardinality({k \in 1..Len(sorted) : ~ChangeBefore(x, sorted[k])})
    IN  SubSeq(sorted, 1, n) \o <<x>> \o SubSeq(sorted, n + 1, Len(sorted))

RECURSIVE SortChangesFrom(_, _, _)
SortChangesFrom(s, k, acc) ==
    IF k > Len(s) THEN acc
    ELSE With(InsertChange(acc, s[k]), LAMBDA a : SortChangesFrom(s, k + 1, a))

SortChanges(s) == With(s, LAMBDA v : SortChangesFrom(v, 1, <<>>))

\* s[:n]
Take(s, n) == SubSeq(s, 1, IF n < Len(s) THEN n ELSE Len(s))

\* compare_filings: the returned list, with the locals the claims speak of.
compare_filings(prior_blocks, latest_blocks, sim_threshold, identical_threshold, top_n) ==
    LET Return(candidates, matches, sorted) ==
            [op |-> "compare_filings",
             sim_threshold |-> sim_threshold,
             identical_threshold |-> identical_threshold,
             top_n |-> top_n,
             candidates |-> candidates,
             matches |-> matches,
             all_changes |-> sorted,
             changes |-> Take(sorted, top_n)]
        Changes(matches) ==
            NewChanges(latest_blocks, MatchedLatest(matches), 1)
            \o RemovedChanges(prior_blocks, MatchedPrior(matches), 1)
            \o ModifiedChanges(latest_blocks, matches, identical_threshold)
    IN  With(SortCandidates(CandidatesFrom(prior_blocks, latest_blocks, sim_threshold, 1, 1)),
             LAMBDA candidates :
               With(GreedyMatches(candidates),
                    LAMBDA matches :
                      With(SortChanges(Changes(matches)),
                           LAMBDA sorted : Return(candidates, matches, sorted))))

SimThresholds == {DefaultSimThreshold, Pct(70), Pct(80)}
IdenticalThresholds == {DefaultIdenticalThreshold, Pct(80)}
TopNs == {DefaultTopN, 1}

\* The keyword arguments of the calls: every sim_threshold with every top_n
\* at the default identical_threshold, and with every identical_threshold
\* at the default top_n.
FilingCalls ==
    {<<t, DefaultIdenticalThreshold, n>> : t \in SimThresholds, n \in TopNs}
        \cup {<<t, it, DefaultTopN>> : t \in SimThresholds, it \in IdenticalThresholds}

\* One call compare_filings(prior_result, latest_result, ...).
CallCompareFilings ==
    /\ \E call \in FilingCalls :
          cfLast' = compare_filings(prior, latest, call[1], call[2], call[3])
    /\ UNCHANGED <<prior, latest, mbLast, crLast>>
    /\ UNCHANGED <<textVars, analyzeVars, storeVars, pdf>>

InitFilings ==
    /\ prior \in ListsUpTo(FilingBlocks, MaxBlocks)
    /\ latest \in ListsUpTo(FilingBlocks, MaxBlocks)
    /\ cfLast = NoCall
    /\ mbLast = NoCall
    /\ crLast = NoCall
    /\ TextIdle /\ AnalyzeIdle /\ StoreIdle /\ PdfIdle

NextFilings == CallCompareFilings

SpecFilings == InitFilings /\ [][NextFilings]_vars

-----------------------------------------------------------------------------
(* functions/compare.py *)

NewBelow == Pct(55)
ModifiedBelow == Pct(85)
NoMatchScore == 90
TopChanges == 15

\* The ratio _best_match computes for one candidate.
NormalizedRatio(a, b) == RatioTable[<<_normalize(a), _normalize(b)>>]

\* The update test of _best_match's loop.
Improves(ratio, best_ratio) == RGt(ratio, best_ratio)

\* _best_match: <<ratio, Some(position of the candidate)>>, or <<0.0, None>>.
\* One turn of _best_match's loop: best with candidate k tried.
BestMatchStep(block, candidates, k, best) ==
    LET ratio == NormalizedRatio(block.risk_text, candidates[k].risk_text)
    IN  IF Improves(ratio, best[1]) THEN <<ratio, Some(k)>> ELSE best

RECURSIVE BestMatchFrom(_, _, _, _)
BestMatchFrom(block, candidates, k, best) ==
    IF k > Len(candidates) THEN best
    ELSE With(BestMatchStep(block, candidates, k, best),
              LAMBDA b : BestMatchFrom(block, candidates, k + 1, b))

_best_match(block, candidates) == BestMatchFrom(block, candidates, 1, <<Zero, None>>)

\* A change record of compare_reports.  (short_explanation, a fixed display
\* string per change type, is left out.)
ReportChange(theme, type, score, old_text, new_text, latest_id, prior_id) ==
    [risk_theme |-> theme, change_type |-> type, change_score |-> score,
     old_text |-> old_text, new_text |-> new_text,
     latest_block_id |-> latest_id, prior_block_id |-> prior_id]

\* Whether a prior block counts as used in the REMOVED loop.
IsUsed(pb, used_prior) == pb.block_id \in used_prior

\* One turn of the NEW / MODIFIED loop for latest block lb, given best
\* match bm: <<changes, used_prior>> after it.
LatestStep(lb, prior_blocks, bm, changes, used_prior) ==
    LET score == bm[1]
        found == bm[2] # None
    IN  IF ~found \/ RLt(score, NewBelow)
        THEN <<Append(changes,
                      ReportChange(lb.risk_theme, "NEW",
                                   IF found THEN IntPctChange(score) ELSE NoMatchScore,
                                   None, Some(lb.risk_text), Some(lb.block_id), None)),
               used_prior>>
        ELSE LET pb == prior_blocks[bm[2][1]]
             IN  <<IF RLt(score, ModifiedBelow)
                   THEN Append(changes,
                               ReportChange(lb.risk_theme, "MODIFIED", IntPctChange(score),
                                            Some(pb.risk_text), Some(lb.risk_text),
                                            Some(lb.block_id), Some(pb.block_id)))
                   ELSE changes,
                   used_prior \cup {pb.block_id}>>

\* The NEW / MODIFIED loop from latest block i on; st is <<changes,
\* used_prior>> so far.
RECURSIVE LatestLoop(_, _, _, _)
LatestLoop(latest_blocks, prior_blocks, i, st) ==
    IF i > Len(latest_blocks) THEN st
    ELSE With(With(_best_match(latest_blocks[i], prior_blocks),
                   LAMBDA bm : LatestStep(latest_blocks[i], prior_blocks, bm, st[1], st[2])),
              LAMBDA next : LatestLoop(latest_blocks, prior_blocks, i + 1, next))

\* One turn of the REMOVED loop for prior block pb: changes after it.
RemovedStep(pb, latest_blocks, used_prior, changes) ==
    IF IsUsed(pb, used_prior) THEN changes
    ELSE With(_best_match(pb, latest_blocks),
              LAMBDA bm :
                IF bm[2] = None \/ RLt(bm[1], NewBelow)
                THEN Append(changes,
                            ReportChange(pb.risk_theme, "REMOVED",
                                         IF bm[2] # None THEN IntPctChange(bm[1])
                                         ELSE NoMatchScore,
                                         Some(pb.risk_text), None, None, Some(pb.block_id)))
                ELSE changes)

\* The REMOVED loop from prior block j on.
RECURSIVE RemovedLoop(_, _, _, _, _)
RemovedLoop(latest_blocks, prior_blocks, j, used_prior, changes) ==
    IF j > Len(prior_blocks) THEN changes
    ELSE With(RemovedStep(prior_blocks[j], latest_blocks, used_prior, changes),
              LAMBDA c : RemovedLoop(latest_blocks, prior_blocks, j + 1, used_prior, c))

\* compare_reports: risk_changes, with the locals the claims speak of.
compare_reports(latest_blocks, prior_blocks) ==
    With(LatestLoop(latest_blocks, prior_blocks, 1, <<<<>>, {}>>),
         LAMBDA ll :
           With(SortChanges(RemovedLoop(latest_blocks, prior_blocks, 1, ll[2], ll[1])),
                LAMBDA sorted :
                  [op |-> "compare_reports",
                   used_prior |-> ll[2],
                   all_changes |-> sorted,
                   risk_changes |-> Take(sorted, TopChanges)]))

\* Blocks as build_risk_blocks stores them: every block has its own uuid4
\* block_id (here the side of the comparison and the position).
WithIds(side, texts) ==
    [k \in 1..Len(texts) |->
        [block_id |-> <<side, k>>, title |-> texts[k], risk_text |-> texts[k],
         risk_theme |-> "other"]]

\* n copies of x.
Rep(x, n) == [k \in 1..n |-> x]

\* The risk_text lists of a stored report: short lists, and lists long
\* enough for more than TopChanges changes.
ShortReports == ListsUpTo(ReportTexts, MaxBlocks)

LongReports ==
    {Rep(t, TopChanges) \o l : t \in {<<"x">>, <<" ", "A", " ", " ", "d">>},
                               l \in ListsUpTo(ReportTexts, 1)}

\* UI/page_compare: compare_reports on the two loaded reports.
CallCompareReports ==
    /\ crLast' = compare_reports(latest, prior)
    /\ UNCHANGED <<prior, latest, cfLast, mbLast>>
    /\ UNCHANGED <<textVars, analyzeVars, storeVars, pdf>>

\* pages/compare: compare_filings(prior_result, latest_result), defaults.
PageCompareFilings ==
    /\ cfLast' = compare_filings(prior, latest, DefaultSimThreshold,
                                      DefaultIdenticalThreshold, DefaultTopN)
    /\ UNCHANGED <<prior, latest, crLast, mbLast>>
    /\ UNCHANGED <<textVars, analyzeVars, storeVars, pdf>>

InitReports ==
    /\ prior \in {WithIds("prior", l) : l \in ShortReports}
    /\ latest \in {WithIds("latest", l) : l \in ShortReports \cup LongReports}
    /\ cfLast = NoCall
    /\ mbLast = NoCall
    /\ crLast = NoCall
    /\ TextIdle /\ AnalyzeIdle /\ StoreIdle /\ PdfIdle

NextReports == CallCompareReports \/ PageCompareFilings

SpecReports == InitReports /\ [][NextReports]_vars

-----------------------------------------------------------------------------
(* app.py: compare helpers.  title_sim is modelled on its token-set path   *)
(* (SK_OK false: scikit-learn not importable).                             *)

\* Block titles of the documents compared by match_blocks.
Titles ==
    { <<"a", " ", "b">>, <<"a", " ", "c">>, <<" ", "A", " ", " ", "b">>, <<>> }

norm_title(t) == CollapseSpaces(Lower(Strip(t)))

\* set(a.split())
TokenSet(a) == LET w == Split(a) IN {w[k] : k \in 1..Len(w)}

title_sim(a, b) ==
    LET na == norm_title(a)
        nb == norm_title(b)
        sa == TokenSet(na)
        sb == TokenSet(nb)
    IN  IF na = <<>> \/ nb = <<>> THEN Zero
        ELSE IF na = nb THEN One
        ELSE Frac(Cardinality(sa \cap sb), Max(1, Cardinality(sa \cup sb)))

\* round(x, 4); no ratio of the model lies halfway between two steps.
Round4(x) == Frac((2 * 10000 * x[1] + x[2]) \div (2 * x[2]), 10000)

\* The inner loop over b: <<best_j, best>> after positions j..Len(b); best_j
\* is None or Some(position), best starts at -1.0 (here: None seen so far).
BestUnusedStep(aa, b, used_b, j, best) ==
    IF j \in used_b THEN best
    ELSE LET s == title_sim(aa.title, b[j].title)
         IN  IF best[1] = None \/ RGt(s, best[2]) THEN <<Some(j), s>> ELSE best

RECURSIVE BestUnused(_, _, _, _, _)
BestUnused(aa, b, used_b, j, best) ==
    IF j > Len(b) THEN best
    ELSE With(BestUnusedStep(aa, b, used_b, j, best),
              LAMBDA n : BestUnused(aa, b, used_b, j + 1, n))

\* The acceptance test of the outer loop.
MatchAccepted(best, threshold) == best[1] # None /\ RGe(best[2], threshold)

\* The outer loop over a from position i on: the matched list.
UsedB(matched) == {matched[k].b : k \in 1..Len(matched)}

\* One turn of the outer loop for a[i]: matched after it.
MatchStep(a, b, threshold, i, matched) ==
    With(BestUnused(a[i], b, UsedB(matched), 1, <<None, Zero>>),
         LAMBDA best :
           IF MatchAccepted(best, threshold)
           THEN Append(matched, [a |-> i, b |-> best[1][1], title_sim |-> Round4(best[2])])
           ELSE matched)

RECURSIVE MatchLoop(_, _, _, _, _)
MatchLoop(a, b, threshold, i, matched) ==
    IF i > Len(a) THEN matched
    ELSE With(MatchStep(a, b, threshold, i, matched),
              LAMBDA m : MatchLoop(a, b, threshold, i + 1, m))

\* The positions k of s, in order, that satisfy keep[k].
RECURSIVE Positions(_, _)
Positions(keep, k) ==
    IF k > Len(keep) THEN <<>>
    ELSE (IF keep[k] THEN <<k>> ELSE <<>>) \o Positions(keep, k + 1)

\* removed = [aa for aa in a if aa.get("title","") not in matched_a_titles]
RemovedOf(a, matched) ==
    LET matched_a_titles == {a[matched[k].a].title : k \in 1..Len(matched)}
    IN  Positions([k \in 1..Len(a) |-> a[k].title \notin matched_a_titles], 1)

\* new_in_b = [bb for j, bb in enumerate(b) if j not in used_b]
NewInB(b, matched) == Positions([j \in 1..Len(b) |-> j \notin UsedB(matched)], 1)

\* match_blocks: (matched, new_in_b, removed); blocks are given by their
\* positions in a and in b.
match_blocks(a, b, threshold) ==
    With(MatchLoop(a, b, threshold, 1, <<>>),
         LAMBDA matched :
           [op |-> "match_blocks",
            threshold |-> threshold,
            matched |-> matched,
            new_in_b |-> NewInB(b, matched),
            removed |-> RemovedOf(a, matched)])

\* Values of the "Title similarity threshold" slider.
MatchThresholds == {Pct(30), Pct(55), Pct(95)}

TitledBlocks == {Block(t, t) : t \in Titles}

\* The Compare tab: match_blocks(A.risk_blocks, B.risk_blocks, threshold);
\* prior is document A (baseline), latest is document B.
CallMatchBlocks ==
    /\ \E t \in MatchThresholds : mbLast' = match_blocks(prior, latest, t)
    /\ UNCHANGED <<prior, latest, cfLast, crLast>>
    /\ UNCHANGED <<textVars, analyzeVars, storeVars, pdf>>

InitMatch ==
    /\ prior \in ListsUpTo(TitledBlocks, MaxBlocks)
    /\ latest \in ListsUpTo(TitledBlocks, MaxBlocks)
    /\ cfLast = NoCall
    /\ mbLast = NoCall
    /\ crLast = NoCall
    /\ TextIdle /\ AnalyzeIdle /\ StoreIdle /\ PdfIdle

NextMatch == CallMatchBlocks

SpecMatch == InitMatch /\ [][NextMatch]_vars

-----------------------------------------------------------------------------
(* extractor.py: normalize_text.  A text is a sequence of characters; the  *)
(* non-breaking space U+00A0 is written NBSP.                              *)

\* Longest text given to normalize_text.
MaxChars == 5

NBSP == "nbsp"

\* An ordinary character, a space, a tab, a newline, a non-breaking space.
NormChars == {"a", " ", "\t", "\n", NBSP}

\* s.replace("\u00a0", " ")
ReplaceNbsp(s) == [i \in 1..Len(s) |-> IF s[i] = NBSP THEN " " ELSE s[i]]

\* [ \t]
IsBlank(c) == c = " " \/ c = "\t"

\* re.sub(r"[ \t]+", " ", s) from position i on: a run of blanks is
\* replaced by one space, written where the run starts.
RECURSIVE CollapseBlanksFrom(_, _)
CollapseBlanksFrom(s, i) ==
    IF i > Len(s) THEN <<>>
    ELSE (IF ~IsBlank(s[i]) THEN <<s[i]>>
          ELSE IF i > 1 /\ IsBlank(s[i - 1]) THEN <<>>
          ELSE <<" ">>)
         \o CollapseBlanksFrom(s, i + 1)

CollapseBlanks(s) == CollapseBlanksFrom(s, 1)

\* re.sub(r"\n{3,}", "\n\n", s) from position i on: of a run of newlines
\* the first two are kept.
RECURSIVE CollapseNewlinesFrom(_, _)
CollapseNewlinesFrom(s, i) ==
    IF i > Len(s) THEN <<>>
    ELSE (IF s[i] = "\n" /\ i > 2 /\ s[i - 1] = "\n" /\ s[i - 2] = "\n" THEN <<>>
          ELSE <<s[i]>>)
         \o CollapseNewlinesFrom(s, i + 1)

CollapseNewlines(s) == CollapseNewlinesFrom(s, 1)

\* str.isspace() on the characters of the model.
IsWhitespace(c) == c \in {" ", "\t", "\n", NBSP}

\* s.strip(): s between its first and its last non-whitespace character.
StripWhitespace(s) ==
    LET kept == {i \in 1..Len(s) : ~IsWhitespace(s[i])}
    IN  IF kept = {} THEN <<>>
        ELSE SubSeq(s, CHOOSE i \in kept : \A j \in kept : i <= j,
                       CHOOSE i \in kept : \A j \in kept : j <= i)

\* Mutant of normalize_text: the non-breaking spaces are replaced after the
\* runs of blanks are collapsed.
normalize_text_nbsp_last(s) ==
    StripWhitespace(ReplaceNbsp(CollapseNewlines(CollapseBlanks(s))))

normalize_text(s) ==
    StripWhitespace(CollapseNewlines(CollapseBlanks(ReplaceNbsp(s))))

\* read_file_to_text, txt branch: normalize_text on the decoded file.
CallNormalizeText ==
    /\ exLast.op = "none"
    /\ exLast' = [op |-> "normalize_text", text |-> normalize_text(doc)]
    /\ UNCHANGED <<doc, compareVars, analyzeVars, storeVars, pdf>>

\* extract_section: normalize_text on a text that already went through it.
CallNormalizeTextAgain ==
    /\ exLast.op = "normalize_text"
    /\ exLast' = [op |-> "normalize_text_again", text |-> normalize_text(exLast.text)]
    /\ UNCHANGED <<doc, compareVars, analyzeVars, storeVars, pdf>>

InitNormalize ==
    /\ doc \in ListsUpTo(NormChars, MaxChars)
    /\ exLast = NoCall
    /\ CompareIdle /\ AnalyzeIdle /\ StoreIdle /\ PdfIdle

NextNormalize == CallNormalizeText \/ CallNormalizeTextAgain

SpecNormalize == InitNormalize /\ [][NextNormalize]_vars

-----------------------------------------------------------------------------
(* Filing texts for the Item 1A locators and segmenters.  The thresholds   *)
(* of this code are counted in characters (40, 80, 180, 500, 2000, ...),   *)
(* so a filing text is kept as its list of paragraphs, in order, each one  *)
(* line, separated by blank lines ("\n\n"); a paragraph is kept as what    *)
(* the code asks of it:                                                    *)
(*   kind    "item1a" when it is the heading "Item 1A. Risk Factors",      *)
(*           "item1b" when it is "Item 1B. Unresolved Staff Comments",     *)
(*           "toc" when it is a run of table-of-contents entries,          *)
(*           "body" otherwise                                              *)
(*   len     its length in characters                                      *)
(*   upper   the number of upper-case letters in it                        *)
(*   period  whether it ends with "."                                      *)
(*   opener  whether it starts with "The ", "Our ", "We ", ...             *)
(*   items   the number of matches of "item\s*\d" in it                    *)
(* No paragraph of the model ends with ",", is all upper case, has a       *)
(* doubled space or holds a boilerplate hint; only the table-of-contents   *)
(* run has more than four digits, and it is longer than any heading and    *)
(* ends with "."; no body paragraph names an item.                         *)

\* Most paragraphs of a filing text.
MaxParas == 4

Par(kind, len, upper, period, opener, items) ==
    [kind |-> kind, len |-> len, upper |-> upper, period |-> period,
     opener |-> opener, items |-> items]

\* "Item 1A. Risk Factors" and "Item 1B. Unresolved Staff Comments"
Item1AHeading == Par("item1a", 21, 4, FALSE, FALSE, 1)
Item1BHeading == Par("item1b", 34, 5, FALSE, FALSE, 1)

\* "We may lose key customers."
ShortSentence == Par("body", 26, 1, TRUE, TRUE, 0)
\* "Risks Related to Our Business"
ShortHeading == Par("body", 29, 4, FALSE, FALSE, 0)
\* "Risks Related to Our Business, Industry and Operations"
LongHeading == Par("body", 54, 6, FALSE, FALSE, 0)
\* A sentence of 90 characters starting with "We ".
Sentence == Par("body", 90, 1, TRUE, TRUE, 0)
\* Paragraphs of 200 and of 450 characters.
LongParagraph == Par("body", 200, 2, TRUE, FALSE, 0)
HugeParagraph == Par("body", 450, 3, TRUE, FALSE, 0)

\* "Item 10. Directors and Officers. Item 11. Executive Compensation.
\* Item 12. Security Ownership of Certain Beneficial Owners and Related
\* Stockholder Matters.", the entries of a table of contents on one line.
TocLine == Par("toc", 155, 15, TRUE, FALSE, 3)

Paragraphs ==
    {Item1AHeading, Item1BHeading, ShortSentence, ShortHeading, LongHeading,
     Sentence, LongParagraph, HugeParagraph, TocLine}

\* Where in a paragraph "item\s*\d" matches, counted from its first
\* character.
MentionOffsets(p) ==
    IF p.kind = "toc" THEN {0, 33, 66}
    ELSE IF p.items = 1 THEN {0}
    ELSE {}

FilingDocs == ListsUpTo(Paragraphs, MaxParas)

\* len("\n\n".join(paragraphs 1..k))
RECURSIVE TextLenTo(_, _)
TextLenTo(d, k) ==
    IF k = 0 THEN 0
    ELSE TextLenTo(d, k - 1) + (IF k > 1 THEN 2 ELSE 0) + d[k].len

TextLen(d) == TextLenTo(d, Len(d))

\* The position in the text of the first character of paragraph k.
Offset(d, k) == IF k = 1 THEN 0 ELSE TextLenTo(d, k - 1) + 2

\* The paragraphs of d at the positions in keep, in order.
RECURSIVE Select(_, _, _)
Select(d, keep, k) ==
    IF k > Len(d) THEN <<>>
    ELSE (IF k \in keep THEN <<d[k]>> ELSE <<>>) \o Select(d, keep, k + 1)

\* The least element of a non-empty set of numbers.
Min(S) == CHOOSE x \in S : \A y \in S : x <= y

-----------------------------------------------------------------------------
(* core/extractor.py: _locate_item1a_range, _clean_text and                *)
(* _extract_risks_from_text_fallback.                                      *)

\* The length of a match of "item\s*\d" ("Item 1"); a heading starts with it.
MentionLen == 6

\* _is_toc_region: the window looked at and the matches it may hold.
TocWindow == 2000
TocItems == 5

\* How far after the start an end heading must lie, and how much text
\* before it is tested for a table of contents.
EndAfter == 500
EndLookBack == 200

\* _clean_text drops a line starting with "item <digit>" if shorter.
ItemLineBelow == 60

\* The thresholds of _extract_risks_from_text_fallback.
MinCleaned == 100
ParaAbove == 40
HeaderBelow == 80
TitleBelow == 400
SubRiskBelow == 250
FallbackParas == 30

\* The matches of "item\s*\d" that lie in text[lo:hi], counted from
\* paragraph j on.
RECURSIVE ItemMentionsFrom(_, _, _, _)
ItemMentionsFrom(d, lo, hi, j) ==
    IF j > Len(d) THEN 0
    ELSE Cardinality({o \in MentionOffsets(d[j]) :
                         lo <= Offset(d, j) + o /\ Offset(d, j) + o + MentionLen <= hi})
         + ItemMentionsFrom(d, lo, hi, j + 1)

\* Mutant of _is_toc_region: a window with exactly five matches counted as
\* a table of contents.
_is_toc_region_from_five(d, lo, hi) ==
    ItemMentionsFrom(d, lo, Min({hi, lo + TocWindow}), 1) >= TocItems

\* _is_toc_region(text[lo:hi])
_is_toc_region(d, lo, hi) ==
    ItemMentionsFrom(d, lo, Min({hi, lo + TocWindow}), 1) > TocItems

\* The paragraphs an end pattern matches.
EndKinds == {"item1b", "item2"}

\* _locate_item1a_range: None, or Some(<<start_pos, end_pos>>).
_locate_item1a_range(d) ==
    LET matches_1a == {k \in 1..Len(d) : d[k].kind = "item1a"}
        body == {k \in matches_1a : ~_is_toc_region(d, Offset(d, k), Offset(d, k) + TocWindow)}
        m == IF body # {} THEN Min(body)
             ELSE CHOOSE k \in matches_1a : \A j \in matches_1a : j <= k
        start_pos == Offset(d, m) + d[m].len
        Ends(kind) ==
            {e \in 1..Len(d) :
                /\ d[e].kind = kind
                /\ Offset(d, e) > start_pos + EndAfter
                /\ ~_is_toc_region(d, Max(0, Offset(d, e) - EndLookBack), Offset(d, e))}
    IN  IF matches_1a = {} THEN None
        ELSE Some(<<start_pos,
                    Min({TextLen(d)}
                        \cup {Offset(d, Min(Ends(kind))) : kind \in {x \in EndKinds : Ends(x) # {}}})>>)

\* The paragraphs of text[start_pos:end_pos].
RangeParas(d, rng) ==
    Select(d, {j \in 1..Len(d) : rng[1] <= Offset(d, j) /\ Offset(d, j) + d[j].len <= rng[2]}, 1)

\* _clean_text: the short "Item <digit>" lines are dropped.
_clean_text(paras) ==
    Select(paras, {j \in 1..Len(paras) :
                      ~(paras[j].kind # "body" /\ paras[j].len < ItemLineBelow)}, 1)

\* A risk group; the category is a paragraph or, as None, "Risk Factors".
Risk(category, sub_risks) == [category |-> category, sub_risks |-> sub_risks]

\* One turn of the loop over paras; st is <<risks, current_cat, current_subs>>.
FallbackStep(p, st) ==
    IF p.len < HeaderBelow /\ ~p.period
    THEN <<IF st[3] # <<>> THEN Append(st[1], Risk(st[2], st[3])) ELSE st[1], Some(p), <<>>>>
    ELSE IF (p.len < TitleBelow /\ p.opener) \/ p.len < SubRiskBelow
         THEN <<st[1], st[2], Append(st[3], p)>>
    ELSE st

RECURSIVE FallbackLoop(_, _, _)
FallbackLoop(paras, k, st) ==
    IF k > Len(paras) THEN st
    ELSE With(FallbackStep(paras[k], st), LAMBDA n : FallbackLoop(paras, k + 1, n))

\* The part of _extract_risks_from_text_fallback after the paragraphs are
\* split.
RisksOfParas(paras) ==
    With(FallbackLoop(paras, 1, <<<<>>, None, <<>>>>),
         LAMBDA st :
           LET risks == IF st[3] # <<>> THEN Append(st[1], Risk(st[2], st[3])) ELSE st[1]
               first == Take(paras, FallbackParas)
           IN  IF risks = <<>>
               THEN <<Risk(None, Select(first, {j \in 1..Len(first) :
                                                   first[j].len < TitleBelow}, 1))>>
               ELSE risks)

_extract_risks_from_text_fallback(d) ==
    LET rng == _locate_item1a_range(d)
    IN  IF rng = None THEN <<>>
        ELSE With(_clean_text(RangeParas(d, rng[1])),
                  LAMBDA cleaned :
                    IF TextLen(cleaned) < MinCleaned THEN <<>>
                    ELSE With(Select(cleaned, {j \in 1..Len(cleaned) :
                                                  cleaned[j].len > ParaAbove}, 1),
                              LAMBDA paras :
                                IF paras = <<>> THEN <<>> ELSE RisksOfParas(paras)))

\* core/extractor.extract_item1a_risks_from_text(text); section is the text
\* of the located range, paragraph by paragraph.
CallExtractRisksFallback ==
    /\ exLast' = [op |-> "_extract_risks_from_text_fallback",
                  located |-> _locate_item1a_range(doc) # None,
                  range |-> _locate_item1a_range(doc),
                  section |-> IF _locate_item1a_range(doc) = None THEN <<>>
                              ELSE RangeParas(doc, _locate_item1a_range(doc)[1]),
                  blocks |-> _extract_risks_from_text_fallback(doc)]
    /\ UNCHANGED <<doc, compareVars, analyzeVars, storeVars, pdf>>

-----------------------------------------------------------------------------
(* extractor.py: extract_section, extract_item1a_risk_factors and          *)
(* segment_risk_blocks.                                                    *)

\* min_len of extract_item1a_risk_factors.
SectionMinLen == 300

\* looks_boilerplate: a paragraph is boilerplate if shorter.
BoilerplateBelow == 80

\* is_heading: the lengths of a heading and the upper-case letters it needs.
HeadingMinLen == 6
HeadingMaxLen == 140
HeadingUpper == 3

\* extract_section with the patterns of extract_item1a_risk_factors: the
\* text from the first Item 1A heading to the first Item 1B heading after
\* it, if that one lies more than min_len characters further.
extract_item1a_risk_factors(d) ==
    LET starts == {k \in 1..Len(d) : d[k].kind = "item1a"}
        k == Min(starts)
        ends == {e \in k..Len(d) : d[e].kind = "item1b"}
    IN  IF starts = {} THEN <<>>
        ELSE IF ends # {} /\ Offset(d, Min(ends)) - Offset(d, k) > SectionMinLen
             THEN SubSeq(d, k, Min(ends) - 1)
        ELSE SubSeq(d, k, Len(d))

is_heading(line) ==
    /\ line.len >= HeadingMinLen
    /\ line.len <= HeadingMaxLen
    /\ ~line.period
    /\ line.upper >= HeadingUpper

\* len("\n".join(body))
RECURSIVE JoinedLenTo(_, _)
JoinedLenTo(body, k) ==
    IF k = 0 THEN 0
    ELSE JoinedLenTo(body, k - 1) + (IF k > 1 THEN 1 ELSE 0) + body[k].len

looks_boilerplate(body) == JoinedLenTo(body, Len(body)) < BoilerplateBelow

\* flush(): the lines of body are one paragraph (the blank lines are gone
\* from lines); it becomes a block unless empty or boilerplate.
flush(blocks, title, body) ==
    IF body = <<>> \/ looks_boilerplate(body) THEN blocks
    ELSE Append(blocks, [title |-> title, content |-> body])

\* One turn of the loop over lines; st is <<blocks, title, body>>.
SegmentStep(ln, st) ==
    IF is_heading(ln) THEN <<flush(st[1], st[2], st[3]), Some(ln), <<>>>>
    ELSE <<st[1], st[2], Append(st[3], ln)>>

RECURSIVE SegmentLoop(_, _, _)
SegmentLoop(lines, k, st) ==
    IF k > Len(lines) THEN st
    ELSE With(SegmentStep(lines[k], st), LAMBDA n : SegmentLoop(lines, k + 1, n))

\* The lines of the section without a first "Item 1A" line.
SectionLines(risk_text) ==
    IF risk_text # <<>> /\ risk_text[1].kind = "item1a" THEN Tail(risk_text) ELSE risk_text

\* segment_risk_blocks; the title of a block is a line or, as None,
\* "General Risk Factors".
segment_risk_blocks(risk_text) ==
    IF risk_text = <<>> THEN <<>>
    ELSE With(SegmentLoop(SectionLines(risk_text), 1, <<<<>>, None, <<>>>>),
              LAMBDA st : flush(st[1], st[2], st[3]))

\* extractor.py, the analysis of a filing: extract_item1a_risk_factors, then
\* segment_risk_blocks; section is the text under the Item 1A heading.
CallSegmentRiskBlocks ==
    /\ exLast' = [op |-> "segment_risk_blocks",
                  located |-> extract_item1a_risk_factors(doc) # <<>>,
                  section |-> SectionLines(extract_item1a_risk_factors(doc)),
                  blocks |-> segment_risk_blocks(extract_item1a_risk_factors(doc))]
    /\ UNCHANGED <<doc, compareVars, analyzeVars, storeVars, pdf>>

InitSegment ==
    /\ doc \in FilingDocs
    /\ exLast = NoCall
    /\ CompareIdle /\ AnalyzeIdle /\ StoreIdle /\ PdfIdle

NextSegment == CallExtractRisksFallback \/ CallSegmentRiskBlocks

SpecSegment == InitSegment /\ [][NextSegment]_vars

-----------------------------------------------------------------------------
(* core/extractor.py: extract_item1a_risks and _group_hierarchical.  An    *)
(* HTML filing is kept as the list of its <p> elements, each holding one   *)
(* paragraph, set in bold (<b>), in bold italics (<b><i>) or plain;        *)
(* _full_text gives the paragraphs separated by blank lines.               *)

\* Most elements after the Item 1A heading.
MaxTags == 4

\* The text lengths of a bold element that is kept.
BoldMinLen == 12
BoldMaxLen == 500

\* A category of the second grouping is shorter than CatBelow and has no
\* "." in its first CatDotWindow characters.
CatBelow == 60
CatDotWindow == 50

Tag(par, bold, italic) == [par |-> par, bold |-> bold, italic |-> italic]

\* _full_text(soup)
_full_text(html) == [k \in 1..Len(html) |-> html[k].par]

\* Whether the text of p holds the text of q: a paragraph holds itself, and
\* "Risks Related to Our Business, Industry and Operations" starts with
\* "Risks Related to Our Business".
Contains(p, q) == p = q \/ (p = LongHeading /\ q = ShortHeading)

\* _find_text_pos(full, txt) for the text of paragraph k: full.find(txt).
_find_text_pos(full, k) ==
    Offset(full, Min({j \in 1..Len(full) : Contains(full[j], full[k])}))

\* "." in text[:50], asked of texts shorter than 60: the item headings and
\* the short sentence have one, the headings of the model have none.
DotInWindow(p) == p.kind # "body" \/ (p.period /\ p.len <= CatDotWindow)

BoldItem(text, is_italic, pos) == [text |-> text, is_italic |-> is_italic, pos |-> pos]

\* bold_items, in the order of find_all, from element k on.
RECURSIVE BoldItemsFrom(_, _, _, _)
BoldItemsFrom(html, full, rng, k) ==
    IF k > Len(html) THEN <<>>
    ELSE (IF /\ html[k].par.len >= BoldMinLen
             /\ html[k].par.len <= BoldMaxLen
             /\ html[k].bold
             /\ rng[1] <= _find_text_pos(full, k)
             /\ _find_text_pos(full, k) <= rng[2]
          THEN <<BoldItem(html[k].par, html[k].italic, _find_text_pos(full, k))>>
          ELSE <<>>)
         \o BoldItemsFrom(html, full, rng, k + 1)

\* bold_items.sort(key=pos): stable.
InsertByPos(sorted, b) ==
    LET n == Cardinality({k \in 1..Len(sorted) : sorted[k].pos <= b.pos})
    IN  SubSeq(sorted, 1, n) \o <<b>> \o SubSeq(sorted, n + 1, Len(sorted))

RECURSIVE SortByPosFrom(_, _, _)
SortByPosFrom(items, k, acc) ==
    IF k > Len(items) THEN acc
    ELSE With(InsertByPos(acc, items[k]), LAMBDA a : SortByPosFrom(items, k + 1, a))

\* One turn of the deduplication loop: unique after bold item b.  (Every
\* item of unique has its entry in seen_texts and in seen_positions.)
DedupeStep(unique, b) ==
    LET seen == \E k \in 1..Len(unique) : unique[k].text = b.text
        near == \E k \in 1..Len(unique) :
                    \/ unique[k].pos <= b.pos /\ b.pos <= unique[k].pos + unique[k].text.len
                    \/ b.pos <= unique[k].pos /\ unique[k].pos <= b.pos + b.text.len
        alike == \E k \in 1..Len(unique) :
                    Contains(b.text, unique[k].text) \/ Contains(unique[k].text, b.text)
    IN  IF seen \/ (near /\ alike) THEN unique ELSE Append(unique, b)

RECURSIVE DedupeFrom(_, _, _)
DedupeFrom(items, k, unique) ==
    IF k > Len(items) THEN unique
    ELSE With(DedupeStep(unique, items[k]), LAMBDA u : DedupeFrom(items, k + 1, u))

\* The category "General Risks" of the titles before the first category.
GeneralRisks == Par("general", 13, 2, FALSE, FALSE, 0)

TextsOf(items, keep) ==
    LET kept == Select(items, keep, 1) IN [k \in 1..Len(kept) |-> kept[k].text]

\* The groups of _group_hierarchical from category i on.
RECURSIVE GroupsFrom(_, _, _)
GroupsFrom(categories, subrisk_items, i) ==
    IF i > Len(categories) THEN <<>>
    ELSE LET cat_start == categories[i].pos
             subs == TextsOf(subrisk_items,
                             {k \in 1..Len(subrisk_items) :
                                 /\ cat_start <= subrisk_items[k].pos
                                 /\ (i + 1 <= Len(categories)
                                        => subrisk_items[k].pos < categories[i + 1].pos)})
         IN  (IF subs # <<>> THEN <<Risk(Some(categories[i].text), subs)>> ELSE <<>>)
             \o GroupsFrom(categories, subrisk_items, i + 1)

\* Mutant of _group_hierarchical: the titles before the first category get
\* no group.
_group_hierarchical_no_orphans(categories, subrisk_items) ==
    GroupsFrom(categories, subrisk_items, 1)

_group_hierarchical(categories, subrisk_items) ==
    LET orphans == IF categories = <<>> THEN <<>>
                   ELSE TextsOf(subrisk_items,
                                {k \in 1..Len(subrisk_items) :
                                    subrisk_items[k].pos < categories[1].pos})
    IN  (IF orphans # <<>> THEN <<Risk(Some(GeneralRisks), orphans)>> ELSE <<>>)
        \o GroupsFrom(categories, subrisk_items, 1)

\* The part of extract_item1a_risks after the deduplication: the strategy
\* taken, the groups returned and the arguments of the _group_hierarchical
\* call, if one was made.
Classify(unique, full) ==
    LET categories == Select(unique, {k \in 1..Len(unique) : ~unique[k].is_italic}, 1)
        subrisk_titles == Select(unique, {k \in 1..Len(unique) : unique[k].is_italic}, 1)
        cats == Select(categories,
                       {k \in 1..Len(categories) :
                           /\ categories[k].text.len < CatBelow
                           /\ ~DotInWindow(categories[k].text)}, 1)
        subs == Select(categories,
                       {k \in 1..Len(categories) :
                           ~(/\ categories[k].text.len < CatBelow
                             /\ ~DotInWindow(categories[k].text))}, 1)
        Out(strategy, blocks, c, t) ==
            [strategy |-> strategy, blocks |-> blocks, categories |-> c, subrisk_items |-> t]
    IN  IF categories # <<>> /\ subrisk_titles # <<>>
           /\ _group_hierarchical(categories, subrisk_titles) # <<>>
        THEN Out("hierarchical", _group_hierarchical(categories, subrisk_titles),
                 categories, subrisk_titles)
        ELSE IF subrisk_titles # <<>> /\ categories = <<>>
        THEN Out("flat", <<Risk(None, TextsOf(subrisk_titles, 1..Len(subrisk_titles)))>>,
                 <<>>, <<>>)
        ELSE IF categories # <<>> /\ subrisk_titles = <<>>
        THEN IF cats # <<>> /\ subs # <<>>
             THEN Out("hierarchical", _group_hierarchical(cats, subs), cats, subs)
             ELSE Out("flat", <<Risk(None, TextsOf(categories, 1..Len(categories)))>>,
                      <<>>, <<>>)
        ELSE Out("fallback", _extract_risks_from_text_fallback(full), <<>>, <<>>)

\* extract_item1a_risks(html_bytes), with the locals the claims speak of.
extract_item1a_risks(html) ==
    LET full == _full_text(html)
        rng == _locate_item1a_range(full)
    IN  IF rng = None
        THEN [op |-> "extract_item1a_risks", located |-> FALSE, unique |-> <<>>,
              strategy |-> "none", blocks |-> <<>>, categories |-> <<>>,
              subrisk_items |-> <<>>]
        ELSE With(DedupeFrom(SortByPosFrom(BoldItemsFrom(html, full, rng[1], 1), 1, <<>>),
                             1, <<>>),
                  LAMBDA unique :
                    With(Classify(unique, full),
                         LAMBDA out :
                           [op |-> "extract_item1a_risks", located |-> TRUE,
                            unique |-> unique, strategy |-> out.strategy,
                            blocks |-> out.blocks, categories |-> out.categories,
                            subrisk_items |-> out.subrisk_items]))

\* The elements of the HTML filings: headings and sentences in bold or in
\* bold italics, and plain text.
Tags ==
    {Tag(ShortHeading, TRUE, FALSE), Tag(ShortHeading, TRUE, TRUE),
     Tag(LongHeading, TRUE, FALSE), Tag(ShortSentence, TRUE, FALSE),
     Tag(ShortSentence, TRUE, TRUE), Tag(Sentence, TRUE, FALSE),
     Tag(Sentence, TRUE, TRUE), Tag(LongParagraph, FALSE, FALSE)}

\* The filings: with the Item 1A heading first, or with no heading.
HtmlDocs ==
    ListsUpTo(Tags, MaxTags)
        \cup {<<Tag(Item1AHeading, FALSE, FALSE)>> \o h : h \in ListsUpTo(Tags, MaxTags)}

\* views/analyze: extract_item1a_risks(file_bytes) on an HTML filing.
CallExtractItem1aRisks ==
    /\ exLast' = extract_item1a_risks(doc)
    /\ UNCHANGED <<doc, compareVars, analyzeVars, storeVars, pdf>>

InitHtml ==
    /\ doc \in HtmlDocs
    /\ exLast = NoCall
    /\ CompareIdle /\ AnalyzeIdle /\ StoreIdle /\ PdfIdle

NextHtml == CallExtractItem1aRisks

SpecHtml == InitHtml /\ [][NextHtml]_vars

-----------------------------------------------------------------------------
(* functions/: extract_item_1a_text, build_risk_blocks,                    *)
(* build_report_payload and the library of functions/storage, as           *)
(* UI/page_analyze runs them ("Run Analyze").                              *)

\* Most records the library is let grow to.
MaxRecords == 2

\* Without a start match the first TopChars characters are returned; without
\* an end match the section is WindowChars long at most.
TopChars == 12000
WindowChars == 40000

\* build_risk_blocks merges the paragraphs shorter than this.
MergeBelow == 180

\* text[:n], paragraph by paragraph; the paragraph n falls into is cut.
TextPrefix(d, n) ==
    LET inside == {k \in 1..Len(d) : Offset(d, k) < n}
    IN  [k \in 1..Cardinality(inside) |->
            IF Offset(d, k) + d[k].len <= n THEN d[k]
            ELSE [d[k] EXCEPT !.len = n - Offset(d, k), !.period = FALSE]]

\* extract_item_1a_text: <<item1a_text, locator>>.  The start patterns match
\* the Item 1A heading, the end patterns "Item 1B" and "Item 2".
extract_item_1a_text(norm) ==
    LET starts == {k \in 1..Len(norm) : norm[k].kind = "item1a"}
        k == Min(starts)
        EndsOf(kind) == {e \in k..Len(norm) : norm[e].kind = kind}
        start_idx == Offset(norm, k)
        end_idx == IF EndsOf("item1b") # {} THEN Offset(norm, Min(EndsOf("item1b")))
                   ELSE IF EndsOf("item2") # {} THEN Offset(norm, Min(EndsOf("item2")))
                   ELSE Min({TextLen(norm), start_idx + WindowChars})
    IN  IF starts = {} THEN <<TextPrefix(norm, TopChars), <<"FALLBACK_TOP">>>>
        ELSE <<Select(TextPrefix(norm, end_idx), k..Len(norm), 1),
               <<"regex_window", start_idx, end_idx>>>>

\* The turn of the loop that forgets buf at a long paragraph.
MergeStepDroppingBuf(para, st) ==
    IF para.len < MergeBelow THEN <<st[1], Append(st[2], para)>>
    ELSE <<Append(st[1], <<para>>), <<>>>>

\* One turn of the merging loop; st is <<merged, buf>>, a merged paragraph
\* being the list of the paragraphs joined in it.
MergeStep(para, st) ==
    IF para.len < MergeBelow THEN <<st[1], Append(st[2], para)>>
    ELSE <<(IF st[2] # <<>> THEN Append(st[1], st[2]) ELSE st[1]) \o <<<<para>>>>, <<>>>>

RECURSIVE MergeLoop(_, _, _)
MergeLoop(paras, k, st) ==
    IF k > Len(paras) THEN (IF st[2] # <<>> THEN Append(st[1], st[2]) ELSE st[1])
    ELSE With(MergeStep(paras[k], st), LAMBDA n : MergeLoop(paras, k + 1, n))

\* A piece of white space only, as re.split leaves before the first and
\* after the last blank line of a text.
Blank == Par("blank", 0, 0, FALSE, FALSE, 0)

\* [p.strip() for p in re.split(r"\n\s*\n", item1a_text) if p.strip()],
\* from piece k on; item1a_text is the list of its pieces.
RECURSIVE ParasFrom(_, _)
ParasFrom(item1a_text, k) ==
    IF k > Len(item1a_text) THEN <<>>
    ELSE (IF item1a_text[k].len > 0 THEN <<item1a_text[k]>> ELSE <<>>)
         \o ParasFrom(item1a_text, k + 1)

\* build_risk_blocks; run stands for the uuid4 values of one call.  No
\* paragraph of the model holds a theme keyword.
build_risk_blocks(item1a_text, run) ==
    With(MergeLoop(ParasFrom(item1a_text, 1), 1, <<<<>>, <<>>>>),
         LAMBDA merged :
           [idx \in 1..Len(merged) |->
               [block_id |-> <<run, idx>>, risk_theme |-> "other",
                risk_text |-> merged[idx], evidence_pointer |-> idx - 1]])

build_report_payload(company, year, filing_type, industry, item1a_locator, risk_blocks) ==
    [company_overview |->
        [company_name |-> company, company_id |-> company, industry |-> industry,
         filing_type |-> filing_type, fiscal_year |-> year,
         item1a_locator |-> item1a_locator],
     risk_blocks |-> risk_blocks]

\* company.replace("/", "_")
SafeCompany(company) == [i \in 1..Len(company) |-> IF company[i] = "/" THEN "_" ELSE company[i]]

\* upsert_record_and_save_files: the library after the call; record_id is
\* the uuid4 value, created_at the reading of the clock.  The files of the
\* library are a function from paths to contents.
upsert_record_and_save_files(lib, record_id, company, year, filing_type, industry, html_bytes, report_json) ==
    LET html_path == <<"files", SafeCompany(company), year, filing_type, record_id>>
        report_path == <<"reports", SafeCompany(company), year, filing_type, record_id>>
        meta == [record_id |-> record_id, company |-> company, year |-> year,
                 filing_type |-> filing_type, industry |-> industry,
                 html_path |-> html_path, report_path |-> report_path,
                 created_at |-> Len(lib.index) + 1]
    IN  [index |-> Append(lib.index, meta),
         files |-> [path \in DOMAIN lib.files \cup {html_path, report_path} |->
                       IF path = html_path THEN html_bytes
                       ELSE IF path = report_path THEN report_json
                       ELSE lib.files[path]]]

\* list_records: the index, newest first.
list_records(lib) == [k \in 1..Len(lib.index) |-> lib.index[Len(lib.index) + 1 - k]]

\* The filings uploaded: without an Item 1A heading, and with one.
Uploads ==
    { <<Sentence, LongParagraph>>,
      <<ShortSentence, Item1AHeading, LongParagraph, Item1BHeading, Sentence>>,
      <<Item1AHeading, Sentence, ShortSentence>> }

CompanyInputs == {<<"A">>, <<"A", "/", "B">>}
YearInputs == {2023, 2024}
FilingTypeInputs == {"10-K", "10-Q"}

\* render_analyze_page with "Run Analyze" pressed and a file uploaded.
RunAnalyze ==
    /\ Len(library.index) < MaxRecords
    /\ \E html \in Uploads, company \in CompanyInputs, year \in YearInputs,
          filing_type \in FilingTypeInputs :
          LET run == Len(library.index) + 1
              located == extract_item_1a_text(html)
              blocks == build_risk_blocks(located[1], run)
              report == build_report_payload(company, year, filing_type, "Other",
                                             located[2], blocks)
          IN  /\ doc' = html
              /\ library' = upsert_record_and_save_files(library, run, company, year,
                                                         filing_type, "Other", html, report)
              /\ anLast' = [op |-> "analyze", item1a_text |-> located[1],
                            locator |-> located[2], report |-> report, record_id |-> run]
    /\ UNCHANGED <<exLast, compareVars, storeVars, pdf>>

InitAnalyze ==
    /\ doc = <<>>
    /\ exLast = NoCall
    /\ library = [index |-> <<>>, files |-> <<>>]
    /\ anLast = NoCall
    /\ CompareIdle /\ StoreIdle /\ PdfIdle

NextAnalyze == RunAnalyze

SpecAnalyze == InitAnalyze /\ [][NextAnalyze]_vars

\* Paragraphs of 179 and of 180 characters.
NearlyLong == Par("body", 179, 2, TRUE, FALSE, 0)
JustLong == Par("body", 180, 2, TRUE, FALSE, 0)

BlockParagraphs == {ShortSentence, Sentence, NearlyLong, JustLong, LongParagraph}

\* The texts a call is given, as the pieces re.split cuts them in: the
\* paragraphs, after a blank piece when the text starts with a blank line,
\* before one when it ends with one; the empty text is one blank piece.
BlockTexts ==
    {lead \o d \o trail : d \in ListsUpTo(BlockParagraphs, MaxParas),
                          lead \in {<<>>, <<Blank>>}, trail \in {<<>>, <<Blank>>}}
    \ {<<>>}

\* A call build_risk_blocks(item1a_text).
CallBuildRiskBlocks ==
    /\ exLast' = [op |-> "build_risk_blocks", blocks |-> build_risk_blocks(doc, 1)]
    /\ UNCHANGED <<doc, compareVars, analyzeVars, storeVars, pdf>>

InitBlocks ==
    /\ doc \in BlockTexts
    /\ exLast = NoCall
    /\ CompareIdle /\ AnalyzeIdle /\ StoreIdle /\ PdfIdle

NextBlocks == CallBuildRiskBlocks

SpecBlocks == InitBlocks /\ [][NextBlocks]_vars

-----------------------------------------------------------------------------
(* functions/risk_blocks.py: THEME_RULES and _infer_theme.  A block text   *)
(* is kept as its words, separated by single spaces; a keyword is the list *)
(* of its words.                                                           *)

\* Most words of a block text.
MaxWords == 3

THEME_RULES ==
    << <<"cybersecurity", {<<"cyber">>, <<"security", "breach">>, <<"data", "breach">>,
                           <<"ransomware">>, <<"privacy">>}>>,
       <<"regulatory", {<<"regulation">>, <<"regulatory">>, <<"compliance">>, <<"law">>,
                        <<"antitrust">>}>>,
       <<"supply_chain", {<<"supply">>, <<"supplier">>, <<"manufacturing">>,
                          <<"inventory">>, <<"logistics">>}>>,
       <<"geopolitical", {<<"china">>, <<"tariff">>, <<"sanction">>, <<"geopolitical">>,
                          <<"trade">>}>>,
       <<"competition", {<<"competition">>, <<"competitor">>, <<"pricing", "pressure">>,
                         <<"market", "share">>}>>,
       <<"macro", {<<"inflation">>, <<"interest", "rate">>, <<"recession">>,
                   <<"macroeconomic">>}>> >>

\* The words of the block texts.
ThemeWords == {"Cyber", "data", "breach", "lawsuit", "regulatory", "tariff", "growth"}

\* word.lower()
LowerWord(w) == IF w = "Cyber" THEN "cyber" ELSE w

\* k in w, for a one-word keyword k and a lower-case word w of the model:
\* the word itself, and "law" in "lawsuit".
WordHolds(w, k) == w = k \/ (w = "lawsuit" /\ k = "law")

\* k in t: a one-word keyword lies within a word; the words of a longer
\* keyword are consecutive words of the text (no word of the model ends or
\* starts with a word of such a keyword without being it).
KeywordIn(k, t) ==
    IF Len(k) = 1 THEN \E i \in 1..Len(t) : WordHolds(t[i], k[1])
    ELSE \E i \in 1..(Len(t) - Len(k) + 1) : \A j \in 1..Len(k) : t[i + j - 1] = k[j]

\* The rules from rule r on: the first theme with a keyword in t.
RECURSIVE InferFrom(_, _)
InferFrom(t, r) ==
    IF r > Len(THEME_RULES) THEN "other"
    ELSE IF \E k \in THEME_RULES[r][2] : KeywordIn(k, t) THEN THEME_RULES[r][1]
    ELSE InferFrom(t, r + 1)

_infer_theme(text) == InferFrom([i \in 1..Len(text) |-> LowerWord(text[i])], 1)

\* build_risk_blocks: theme = _infer_theme(p) for a block text p.
CallInferTheme ==
    /\ exLast' = [op |-> "_infer_theme", theme |-> _infer_theme(doc)]
    /\ UNCHANGED <<doc, compareVars, analyzeVars, storeVars, pdf>>

InitTheme ==
    /\ doc \in ListsUpTo(ThemeWords, MaxWords)
    /\ exLast = NoCall
    /\ CompareIdle /\ AnalyzeIdle /\ StoreIdle /\ PdfIdle

NextTheme == CallInferTheme

SpecTheme == InitTheme /\ [][NextTheme]_vars

-----------------------------------------------------------------------------
(* storage/store.py: the index object and the source-file and result       *)
(* objects of the S3 bucket.  An object is known by its key,               *)
(* <<prefix, record_id>>; a record_id is <<safe, year, filing_type, sid>>.  *)

\* re.sub(r"[^\w]", "", company.replace(" ", "_"))
RECURSIVE SafeFrom(_, _)
SafeFrom(company, i) ==
    IF i > Len(company) THEN <<>>
    ELSE (IF company[i] = " " THEN <<"_">>
          ELSE IF company[i] \in {".", "/", "-"} THEN <<>>
          ELSE <<company[i]>>)
         \o SafeFrom(company, i + 1)

Safe(company) == SafeFrom(company, 1)

\* The key of the source file and of the result of a record.
SourceKey(record_id, file_ext) == <<IF file_ext = "pdf" THEN "pdf" ELSE "html", record_id>>
ResultKey(record_id) == <<"results", record_id>>

\* The test of the dedup comprehensions.
SameFiling(r, company, year, filing_type) ==
    r.company = company /\ r.year = year /\ r.filing_type = filing_type

\* An add_record call about to start; sid is the value uuid4().hex[:4] will
\* give, index the local variable.
AddCall(company, industry, year, filing_type, file_ext, sid) ==
    [pc |-> "load", company |-> company, industry |-> industry, year |-> year,
     filing_type |-> filing_type, file_ext |-> file_ext, sid |-> sid, index |-> <<>>]

RecordId(call) == <<Safe(call.company), call.year, call.filing_type, call.sid>>

\* The steps of add_record, each <<bucket, call>> after the step.
\* index = load_index()
AddLoad(b, call) == <<b, [call EXCEPT !.pc = "dedup", !.index = b.index]>>

\* The objects of the duplicates are deleted, the duplicates taken out of
\* the local index.
AddDedup(b, call) ==
    LET dupes == {k \in 1..Len(call.index) :
                     SameFiling(call.index[k], call.company, call.year, call.filing_type)}
        gone == UNION {{SourceKey(call.index[k].record_id, call.index[k].file_ext),
                        ResultKey(call.index[k].record_id)} : k \in dupes}
    IN  <<[b EXCEPT !.objects = b.objects \ gone],
          [call EXCEPT !.pc = "write",
                       !.index = Select(call.index, (1..Len(call.index)) \ dupes, 1)]>>

\* The source file and the result are written.
AddWrite(b, call) ==
    <<[b EXCEPT !.objects = b.objects \cup {SourceKey(RecordId(call), call.file_ext),
                                            ResultKey(RecordId(call))}],
      [call EXCEPT !.pc = "save"]>>

\* The record is appended to the local index, the index saved.
AddSave(b, call) ==
    <<[b EXCEPT !.index =
           Append(call.index,
                  [record_id |-> RecordId(call), company |-> call.company,
                   industry |-> call.industry, year |-> call.year,
                   filing_type |-> call.filing_type, file_ext |-> call.file_ext])],
      [call EXCEPT !.pc = "done"]>>

\* add_record run from start to end: the bucket after it.
add_record(b, call) ==
    With(AddLoad(b, call),
         LAMBDA s1 :
           With(AddDedup(s1[1], s1[2]),
                LAMBDA s2 :
                  With(AddWrite(s2[1], s2[2]),
                       LAMBDA s3 : AddSave(s3[1], s3[2])[1])))

\* delete_record: the bucket after it.
delete_record(b, record_id) ==
    LET found == {k \in 1..Len(b.index) : b.index[k].record_id = record_id}
        fe == IF found # {} THEN b.index[Min(found)].file_ext ELSE "html"
    IN  [index |-> Select(b.index, (1..Len(b.index)) \ found, 1),
         objects |-> b.objects \ {SourceKey(record_id, fe), ResultKey(record_id)}]

\* The filings added: two spellings of one company name and another
\* company, one year, both file formats, and the values of uuid4().hex[:4].
StoreCompanies == {<<"A", " ", "B">>, <<"A", "_", "B">>, <<"C", ".">>}
StoreYears == {2023}
FileExts == {"html", "pdf"}
Sids == {"0a", "0b"}

AddCalls ==
    {AddCall(company, "Other", year, "10-K", file_ext, sid) :
        company \in StoreCompanies, year \in StoreYears, file_ext \in FileExts, sid \in Sids}

\* views/analyze: a filing is analysed and add_record called.
AddRecord ==
    /\ \E call \in AddCalls : bucket' = add_record(bucket, call)
    /\ UNCHANGED <<workers, textVars, compareVars, analyzeVars, pdf>>

\* views/analyze: the delete button of a listed record.
DeleteRecord ==
    /\ \E k \in 1..Len(bucket.index) :
          bucket' = delete_record(bucket, bucket.index[k].record_id)
    /\ UNCHANGED <<workers, textVars, compareVars, analyzeVars, pdf>>

InitStore ==
    /\ bucket = [index |-> <<>>, objects |-> {}]
    /\ workers = <<>>
    /\ CompareIdle /\ TextIdle /\ AnalyzeIdle /\ PdfIdle

NextStore == AddRecord \/ DeleteRecord

SpecStore == InitStore /\ [][NextStore]_vars

\* Two sessions of the application, each calling add_record once, for
\* different filings; the S3 requests of the two calls interleave.
Workers == {1, 2}

BeginAddRecord(w) ==
    /\ w \notin DOMAIN workers
    /\ \E call \in AddCalls :
          /\ \A v \in DOMAIN workers :
                ~SameFiling(workers[v], call.company, call.year, call.filing_type)
          /\ workers' = workers @@ (w :> call)
    /\ UNCHANGED <<bucket, textVars, compareVars, analyzeVars, pdf>>

WorkerLoad(w) ==
    /\ w \in DOMAIN workers /\ workers[w].pc = "load"
    /\ bucket' = AddLoad(bucket, workers[w])[1]
    /\ workers' = [workers EXCEPT ![w] = AddLoad(bucket, workers[w])[2]]
    /\ UNCHANGED <<textVars, compareVars, analyzeVars, pdf>>

WorkerDedup(w) ==
    /\ w \in DOMAIN workers /\ workers[w].pc = "dedup"
    /\ bucket' = AddDedup(bucket, workers[w])[1]
    /\ workers' = [workers EXCEPT ![w] = AddDedup(bucket, workers[w])[2]]
    /\ UNCHANGED <<textVars, compareVars, analyzeVars, pdf>>

WorkerWrite(w) ==
    /\ w \in DOMAIN workers /\ workers[w].pc = "write"
    /\ bucket' = AddWrite(bucket, workers[w])[1]
    /\ workers' = [workers EXCEPT ![w] = AddWrite(bucket, workers[w])[2]]
    /\ UNCHANGED <<textVars, compareVars, analyzeVars, pdf>>

WorkerSave(w) ==
    /\ w \in DOMAIN workers /\ workers[w].pc = "save"
    /\ bucket' = AddSave(bucket, workers[w])[1]
    /\ workers' = [workers EXCEPT ![w] = AddSave(bucket, workers[w])[2]]
    /\ UNCHANGED <<textVars, compareVars, analyzeVars, pdf>>

InitStoreRace == InitStore

NextStoreRace ==
    \E w \in Workers :
        \/ BeginAddRecord(w)
        \/ WorkerLoad(w)
        \/ WorkerDedup(w)
        \/ WorkerWrite(w)
        \/ WorkerSave(w)

SpecStoreRace == InitStoreRace /\ [][NextStoreRace]_vars

\* get_result(record_id): the result object, or None when there is none.
get_result(b, record_id) ==
    IF ResultKey(record_id) \in b.objects THEN Some(ResultKey(record_id)) ELSE None

\* add_record calls one after the other, each of which may end with an
\* exception of an S3 write.  A call begins when none is under way; the
\* four characters drawn differ from call to call.
BeginAddRecordAlone(w) ==
    /\ w \notin DOMAIN workers
    /\ \A v \in DOMAIN workers : workers[v].pc \in {"done", "failed"}
    /\ \E call \in AddCalls :
          /\ \A v \in DOMAIN workers : workers[v].sid # call.sid
          /\ workers' = workers @@ (w :> call)
    /\ UNCHANGED <<bucket, textVars, compareVars, analyzeVars, pdf>>

\* _s3_write raises for the source file, or for the result after the
\* source file was written; add_record ends with the exception.
WorkerWriteFails(w) ==
    /\ w \in DOMAIN workers /\ workers[w].pc = "write"
    /\ \/ bucket' = bucket
       \/ bucket' = [bucket EXCEPT !.objects =
                         bucket.objects \cup {SourceKey(RecordId(workers[w]),
                                                        workers[w].file_ext)}]
    /\ workers' = [workers EXCEPT ![w].pc = "failed"]
    /\ UNCHANGED <<textVars, compareVars, analyzeVars, pdf>>

\* _s3_write raises in _save_index.
WorkerSaveFails(w) ==
    /\ w \in DOMAIN workers /\ workers[w].pc = "save"
    /\ workers' = [workers EXCEPT ![w].pc = "failed"]
    /\ UNCHANGED <<bucket, textVars, compareVars, analyzeVars, pdf>>

InitStoreFail == InitStore

NextStoreFail ==
    \E w \in Workers :
        \/ BeginAddRecordAlone(w)
        \/ WorkerLoad(w)
        \/ WorkerDedup(w)
        \/ WorkerWrite(w)
        \/ WorkerSave(w)
        \/ WorkerWriteFails(w)
        \/ WorkerSaveFails(w)

SpecStoreFail == InitStoreFail /\ [][NextStoreFail]_vars

-----------------------------------------------------------------------------
(* core/extractor.py: extract_text_from_pdf.  The Textract job is the      *)
(* environment: each poll answers with any JobStatus.  doc is the PDF as   *)
(* Textract reads it, a sequence of result pages, each a list of blocks.   *)

\* Most result pages of a job.
MaxPages == 2

\* max_wait, and the seconds slept between two polls.
MaxWait == 120
PollSleep == 3

JobStatuses == {"IN_PROGRESS", "SUCCEEDED", "FAILED", "PARTIAL_SUCCESS"}

TextractBlock(type, text) == [BlockType |-> type, Text |-> text]

\* The block lists a result page may carry.
ResultPages ==
    { <<>>,
      <<TextractBlock("PAGE", <<>>)>>,
      <<TextractBlock("PAGE", <<>>), TextractBlock("LINE", <<"a">>),
        TextractBlock("WORD", <<"a">>)>>,
      <<TextractBlock("LINE", <<"a">>), TextractBlock("LINE", <<"b">>)>> }

\* The Text of the LINE blocks of a result page, in order.
RECURSIVE LinesOf(_, _)
LinesOf(blocks, k) ==
    IF k > Len(blocks) THEN <<>>
    ELSE (IF blocks[k].BlockType = "LINE" THEN <<blocks[k].Text>> ELSE <<>>)
         \o LinesOf(blocks, k + 1)

\* "\n".join(lines)
RECURSIVE JoinNewlineFrom(_, _)
JoinNewlineFrom(lines, k) ==
    IF k > Len(lines) THEN <<>>
    ELSE (IF k > 1 THEN <<"\n">> ELSE <<>>) \o lines[k] \o JoinNewlineFrom(lines, k + 1)

JoinNewline(lines) == JoinNewlineFrom(lines, 1)

\* result.get("Blocks", []) of result page k, and whether it has a NextToken.
BlocksOfPage(k) == IF k <= Len(doc) THEN doc[k] ELSE <<>>
HasNextToken(k) == k < Len(doc)

\* The function has returned text from the given line; the finally clause
\* has deleted the temporary object.
Returned(text, at) == [pc |-> "done", returned |-> text, at |-> at, temp |-> FALSE]

\* After result page k was read into lines: the next request or the return.
AfterPage(k, lines, waited) ==
    IF HasNextToken(k)
    THEN [pc |-> "collecting", waited |-> waited, page |-> k, lines |-> lines, temp |-> TRUE]
    ELSE Returned(JoinNewline(lines), "collected")

\* Steps 1 and 2: the PDF is uploaded and the job started.
PdfStartJob ==
    /\ pdf.pc = "idle"
    /\ pdf' = [pc |-> "polling", waited |-> 0, temp |-> TRUE]
    /\ UNCHANGED <<doc, exLast, compareVars, analyzeVars, storeVars>>

\* Step 3, one turn of the polling loop, with what follows when the loop
\* is left.
PdfPoll ==
    /\ pdf.pc = "polling"
    /\ pdf.waited < MaxWait
    /\ \E status \in JobStatuses :
          pdf' = IF status = "SUCCEEDED"
                 THEN AfterPage(1, LinesOf(BlocksOfPage(1), 1), pdf.waited)
                 ELSE IF status = "FAILED" THEN Returned(<<>>, "failed")
                 ELSE IF pdf.waited + PollSleep < MaxWait
                      THEN [pdf EXCEPT !.waited = pdf.waited + PollSleep]
                 ELSE Returned(<<>>, "timeout")
    /\ UNCHANGED <<doc, exLast, compareVars, analyzeVars, storeVars>>

\* Step 4, one further turn of the collecting loop: the next result page.
PdfNextPage ==
    /\ pdf.pc = "collecting"
    /\ pdf' = AfterPage(pdf.page + 1,
                        pdf.lines \o LinesOf(BlocksOfPage(pdf.page + 1), 1),
                        pdf.waited)
    /\ UNCHANGED <<doc, exLast, compareVars, analyzeVars, storeVars>>

InitPdf ==
    /\ doc \in ListsUpTo(ResultPages, MaxPages)
    /\ exLast = NoCall
    /\ pdf = [pc |-> "idle"]
    /\ CompareIdle /\ AnalyzeIdle /\ StoreIdle

NextPdf == PdfStartJob \/ PdfPoll \/ PdfNextPage

SpecPdf == InitPdf /\ [][NextPdf]_vars

-----------------------------------------------------------------------------
(* core/table_extractor.py: _parse_all_tables, _score_table and            *)
(* _classify_tables.  A text is the sequence of its phrases, joined by     *)
(* single spaces; a TABLE block carries what its CELL and WORD children    *)
(* resolve to: the largest row and column index and the cell texts.        *)
(* Scores and weights are counted in halves, so that 4.0 is 8.             *)

\* Most TABLE blocks of a document.
MaxTables == 3

CATEGORY_KEYWORDS ==
    [ income_statement |->
      <<
        <<"statement of operations", 10>>,
        <<"statements of operations", 10>>, <<"income statement", 10>>,
        <<"statements of income", 10>>, <<"statement of income", 10>>,
        <<"statement of earnings", 10>>, <<"results of operations", 8>>,
        <<"profit and loss", 8>>, <<"net sales", 4>>, <<"net revenue", 4>>,
        <<"total net sales", 4>>, <<"cost of sales", 4>>,
        <<"cost of goods sold", 4>>, <<"gross margin", 4>>,
        <<"gross profit", 4>>, <<"operating income", 3>>,
        <<"operating expenses", 3>>, <<"earnings per share", 4>>,
        <<"diluted earnings", 3>>, <<"income tax", 2>>, <<"net income", 3>>,
        <<"income before", 2>>
      >>,
      balance_sheet |->
      <<
        <<"balance sheet", 10>>, <<"balance sheets", 10>>,
        <<"statement of financial position", 10>>,
        <<"statements of financial position", 10>>,
        <<"financial position", 8>>, <<"total assets", 6>>,
        <<"total liabilities", 6>>, <<"current assets", 4>>,
        <<"current liabilities", 4>>, <<"stockholders equity", 5>>,
        <<"shareholders equity", 5>>, <<"accounts receivable", 3>>,
        <<"accounts payable", 3>>, <<"retained earnings", 3>>,
        <<"goodwill", 2>>, <<"total equity", 4>>,
        <<"property plant and equipment", 3>>
      >>,
      cash_flow |->
      <<
        <<"statement of cash flows", 10>>,
        <<"statements of cash flows", 10>>, <<"cash flow statement", 10>>,
        <<"cash flows", 8>>, <<"operating activities", 6>>,
        <<"investing activities", 6>>, <<"financing activities", 6>>,
        <<"cash and cash equivalents", 4>>,
        <<"depreciation and amortization", 3>>,
        <<"capital expenditures", 3>>, <<"purchase of property", 2>>,
        <<"repurchase of common stock", 2>>, <<"dividends paid", 2>>,
        <<"net cash", 4>>, <<"free cash flow", 4>>
      >>,
      shareholders_equity |->
      <<
        <<"shareholders equity", 10>>, <<"stockholders equity", 10>>,
        <<"statement of equity", 10>>, <<"statements of equity", 10>>,
        <<"changes in equity", 8>>, <<"changes in stockholders", 8>>,
        <<"changes in shareholders", 8>>, <<"common stock", 4>>,
        <<"additional paid-in capital", 4>>,
        <<"accumulated other comprehensive", 5>>, <<"retained earnings", 3>>,
        <<"treasury stock", 4>>, <<"total stockholders", 4>>,
        <<"total shareholders", 4>>, <<"share repurchase", 2>>,
        <<"dividends declared", 2>>
      >>,
      segment_revenue |->
      <<
        <<"segment information", 10>>, <<"segment reporting", 10>>,
        <<"segment revenue", 10>>, <<"reportable segments", 8>>,
        <<"operating segments", 8>>, <<"business segments", 8>>,
        <<"products and services", 6>>, <<"revenue by product", 6>>,
        <<"revenue by segment", 6>>, <<"revenue by geography", 6>>,
        <<"geographic information", 6>>, <<"net sales by product", 6>>,
        <<"net sales by reportable segment", 6>>, <<"americas", 3>>,
        <<"europe", 2>>, <<"asia", 2>>, <<"greater china", 3>>
      >>,
      debt_maturity |->
      <<
        <<"debt maturity", 10>>, <<"debt schedule", 10>>,
        <<"contractual obligations", 10>>, <<"long-term debt", 8>>,
        <<"long term debt", 8>>, <<"term debt", 6>>,
        <<"commercial paper", 5>>, <<"notes payable", 4>>,
        <<"bonds payable", 4>>, <<"maturity date", 6>>,
        <<"maturities of", 6>>, <<"principal amount", 4>>,
        <<"interest rate", 3>>, <<"fixed rate", 3>>, <<"floating rate", 3>>,
        <<"due date", 4>>, <<"2025", 1>>, <<"2026", 1>>, <<"2027", 1>>
      >> ]

\* MIN_SCORE_THRESHOLD, the score of confidence 1.0, the row counts that
\* earn a bonus and the bonus, window * 2, the most tables of a category.
MinScoreThreshold == 8
FullScore == 30
BonusRows == 10
BonusRowsMore == 20
RowBonus == 2
NearbyLines == 10
TopPerCategory == 2

priority_order ==
    <<"income_statement", "balance_sheet", "cash_flow",
      "shareholders_equity", "segment_revenue", "debt_maturity">>

SizedCategories ==
    {"income_statement", "balance_sheet", "cash_flow", "shareholders_equity"}

\* p.lower()
LowerPhrase(p) == IF p = "Balance Sheets" THEN "balance sheets" ELSE p

LowerText(t) == [i \in 1..Len(t) |-> LowerPhrase(t[i])]

\* kw in p, for a lower-case phrase p of the model: the phrase itself, and
\* "balance sheet" in "balance sheets".
PhraseHolds(p, kw) == p = kw \/ (p = "balance sheets" /\ kw = "balance sheet")

\* kw.lower() in combined_text: no keyword spans two phrases of the model.
KeywordInText(kw, t) == \E i \in 1..Len(t) : PhraseHolds(t[i], kw)

TableBlock(page, rows, cols, cells) ==
    [BlockType |-> "TABLE", Page |-> page, max_row |-> rows, max_col |-> cols,
     cells |-> cells]

LineBlock(page, text) == [BlockType |-> "LINE", Page |-> page, Text |-> text]

\* The tables of the TABLE blocks from block k on; ti is k - 1.
RECURSIVE ParseTablesFrom(_, _)
ParseTablesFrom(table_blocks, k) ==
    IF k > Len(table_blocks) THEN <<>>
    ELSE LET tb == table_blocks[k]
         IN  (IF tb.max_row < 2 \/ tb.max_col < 2 THEN <<>>
              ELSE << [table_index |-> k - 1, page |-> tb.Page,
                       row_count |-> tb.max_row, col_count |-> tb.max_col,
                       all_text |-> LowerText(tb.cells)] >>)
             \o ParseTablesFrom(table_blocks, k + 1)

_parse_all_tables(blocks) == ParseTablesFrom(blocks.tables, 1)

\* The Text of the LINE blocks of a page, from block k on.
RECURSIVE PageLinesFrom(_, _, _)
PageLinesFrom(lines, page, k) ==
    IF k > Len(lines) THEN <<>>
    ELSE (IF lines[k].Page = page THEN <<lines[k].Text>> ELSE <<>>)
         \o PageLinesFrom(lines, page, k + 1)

_get_nearby_text(table, all_blocks) ==
    LET page_lines == PageLinesFrom(all_blocks.lines, table.page, 1)
    IN  LowerText(SubSeq(page_lines, 1, Min({Len(page_lines), NearbyLines})))

\* The weights of the keywords from keyword k on that the text holds.
RECURSIVE MatchedWeightFrom(_, _, _)
MatchedWeightFrom(keywords, t, k) ==
    IF k > Len(keywords) THEN 0
    ELSE (IF KeywordInText(keywords[k][1], t) THEN keywords[k][2] ELSE 0)
         + MatchedWeightFrom(keywords, t, k + 1)

_score_table(table, category, nearby_text) ==
    MatchedWeightFrom(CATEGORY_KEYWORDS[category], table.all_text \o nearby_text, 1)
    + (IF category \in SizedCategories
       THEN (IF table.row_count >= BonusRows THEN RowBonus ELSE 0)
            + (IF table.row_count >= BonusRowsMore THEN RowBonus ELSE 0)
       ELSE 0)

\* min(score / 15.0, 1.0)
Confidence(score) == Frac(Min({score, FullScore}), FullScore)

\* round(conf, 3), in thousandths: no confidence lies half-way.
RoundedConfidence(conf) == Frac((2000 * conf[1] + conf[2]) \div (2 * conf[2]), 1000)

\* category_candidates[cat], from table k on.
RECURSIVE CategoryCandidatesFrom(_, _, _, _)
CategoryCandidatesFrom(raw_tables, all_blocks, cat, k) ==
    IF k > Len(raw_tables) THEN <<>>
    ELSE LET t == raw_tables[k]
             score == _score_table(t, cat, _get_nearby_text(t, all_blocks))
         IN  (IF score >= MinScoreThreshold THEN << <<Confidence(score), t>> >> ELSE <<>>)
             \o CategoryCandidatesFrom(raw_tables, all_blocks, cat, k + 1)

\* candidates.sort(key=lambda x: -x[0]): a stable sort, by insertion of
\* each candidate after the sorted ones that are not below it.
InsertByConfidence(sorted, c) ==
    LET before == {i \in 1..Len(sorted) : RLe(c[1], sorted[i][1])}
        n == IF before = {} THEN 0 ELSE CHOOSE i \in before : \A j \in before : j <= i
    IN  SubSeq(sorted, 1, n) \o <<c>> \o SubSeq(sorted, n + 1, Len(sorted))

RECURSIVE SortByConfidenceFrom(_, _, _)
SortByConfidenceFrom(cands, k, sorted) ==
    IF k > Len(cands) THEN sorted
    ELSE SortByConfidenceFrom(cands, k + 1, InsertByConfidence(sorted, cands[k]))

\* The loop over the sorted candidates, from candidate k on: the selected
\* candidates, given the table_index values assigned so far.
RECURSIVE SelectFrom(_, _, _, _)
SelectFrom(cands, k, assigned, selected) ==
    IF k > Len(cands) \/ Len(selected) >= TopPerCategory THEN selected
    ELSE IF cands[k][2].table_index \in assigned
         THEN SelectFrom(cands, k + 1, assigned, selected)
         ELSE SelectFrom(cands, k + 1, assigned \cup {cands[k][2].table_index},
                         Append(selected, cands[k]))

\* The same loop without the test of assigned_tables.
SelectTopOfAll(cands, assigned) == SelectFrom(cands, 1, {}, <<>>)

SelectTop(cands, assigned) == SelectFrom(cands, 1, assigned, <<>>)

_generate_title(category, table) == <<category, table.page>>

\* result[cat] for the selected candidates; selected keeps their
\* table_index values.
CategoryResult(cat, selected) ==
    [found |-> selected # <<>>,
     tables |-> [i \in 1..Len(selected) |->
                   [page |-> selected[i][2].page,
                    title |-> _generate_title(cat, selected[i][2]),
                    confidence |-> RoundedConfidence(selected[i][1]),
                    row_count |-> selected[i][2].row_count,
                    col_count |-> selected[i][2].col_count]],
     selected |-> [i \in 1..Len(selected) |-> selected[i][2].table_index]]

\* The loop over priority_order from category r on.
RECURSIVE ClassifyFrom(_, _, _, _, _)
ClassifyFrom(raw_tables, all_blocks, r, assigned, result) ==
    IF r > Len(priority_order) THEN result
    ELSE LET cat == priority_order[r]
             candidates == SortByConfidenceFrom(
                               CategoryCandidatesFrom(raw_tables, all_blocks, cat, 1), 1, <<>>)
             selected == SelectTop(candidates, assigned)
         IN  ClassifyFrom(raw_tables, all_blocks, r + 1,
                          assigned \cup {selected[i][2].table_index : i \in 1..Len(selected)},
                          [result EXCEPT ![cat] = CategoryResult(cat, selected)])

_empty_result == [cat \in DOMAIN CATEGORY_KEYWORDS |-> CategoryResult(cat, <<>>)]

_classify_tables(raw_tables, all_blocks) ==
    ClassifyFrom(raw_tables, all_blocks, 1, {}, _empty_result)

\* The TABLE blocks and the LINE blocks a document may carry.
TableBlocks ==
    { TableBlock(1, 20, 3, <<"stockholders equity", "total assets">>),
      TableBlock(1, 12, 4, <<"stockholders equity">>),
      TableBlock(2, 10, 2, <<"statements of operations">>),
      TableBlock(2, 20, 2, <<"statements of operations", "net sales">>),
      TableBlock(1, 1, 5, <<"total assets">>),
      TableBlock(2, 2, 2, <<"net sales">>) }

Notes(page) == [i \in 1..NearbyLines |-> LineBlock(page, "Notes")]

LineLists ==
    { <<>>,
      <<LineBlock(1, "Balance Sheets")>>,
      Notes(1) \o <<LineBlock(1, "Balance Sheets")>>,
      Notes(2) \o <<LineBlock(1, "Balance Sheets")>> }

TableDocs ==
    {[tables |-> ts, lines |-> ls] : ts \in ListsUpTo(TableBlocks, MaxTables), ls \in LineLists}

\* extract_tables_from_pdf, steps 5 and 6, on the blocks of a finished job.
CallClassifyTables ==
    /\ exLast' = [op |-> "_classify_tables",
                  raw_tables |-> _parse_all_tables(doc),
                  result |-> _classify_tables(_parse_all_tables(doc), doc)]
    /\ UNCHANGED <<doc, compareVars, analyzeVars, storeVars, pdf>>

InitTables ==
    /\ doc \in TableDocs
    /\ exLast = NoCall
    /\ CompareIdle /\ AnalyzeIdle /\ StoreIdle /\ PdfIdle

NextTables == CallClassifyTables

SpecTables == InitTables /\ [][NextTables]_vars

-----------------------------------------------------------------------------
(* core/extractor.py: extract_text_from_pdf, and core/table_extractor.py:  *)
(* extract_tables_from_pdf, call by call.  S3 and Textract are the         *)
(* environment: every call of theirs may raise, and each poll answers      *)
(* with any JobStatus.  doc is the sequence of the job's result pages.     *)

Extractors == {"extract_text_from_pdf", "extract_tables_from_pdf"}

IsText(fn) == fn = "extract_text_from_pdf"

\* max_wait and the seconds slept between two polls, of
\* extract_tables_from_pdf and of either function.
TablesMaxWait == 180
TablesPollSleep == 4
MaxWaitOf(fn) == IF IsText(fn) THEN MaxWait ELSE TablesMaxWait
PollSleepOf(fn) == IF IsText(fn) THEN PollSleep ELSE TablesPollSleep

\* The ways a call ends: with a value, or with the exception of a call.
Return(value) == [returned |-> Some(value), raised |-> None]
Raise(call) == [returned |-> None, raised |-> Some(call)]

\* The result pages of a table analysis: their TABLE and LINE blocks.
NoBlocks == [tables |-> <<>>, lines |-> <<>>]

TablePages ==
    { NoBlocks,
      [tables |-> <<TableBlock(1, 20, 3, <<"stockholders equity", "total assets">>)>>,
       lines |-> <<LineBlock(1, "Balance Sheets")>>],
      [tables |-> <<TableBlock(1, 1, 5, <<"total assets">>)>>, lines |-> <<>>] }

JobDocs(fn) == ListsUpTo(IF IsText(fn) THEN ResultPages ELSE TablePages, MaxPages)

\* What the function has collected before any page, and after result
\* page k was added to acc: lines, or all_blocks.
NothingCollected(fn) == IF IsText(fn) THEN <<>> ELSE NoBlocks

AddPage(fn, acc, k) ==
    IF IsText(fn) THEN acc \o LinesOf(BlocksOfPage(k), 1)
    ELSE IF k > Len(doc) THEN acc
    ELSE [tables |-> acc.tables \o doc[k].tables, lines |-> acc.lines \o doc[k].lines]

\* return "" and return _empty_result()
EmptyReturn(fn) == Return(IF IsText(fn) THEN <<>> ELSE _empty_result)

\* Steps 4 to 6 once every page is in acc: the value returned.
CollectedReturn(fn, acc) ==
    Return(IF IsText(fn) THEN JoinNewline(acc)
           ELSE IF _parse_all_tables(acc) = <<>> THEN _empty_result
           ELSE _classify_tables(_parse_all_tables(acc), acc))

\* The try block is left at the given exit with the given outcome: the
\* finally clause is next.
LeaveTry(p, at, outcome) == [p EXCEPT !.pc = "finally", !.at = at, !.outcome = outcome]

\* After result page k was read: the next request or the return.
AfterResultPage(p, k) ==
    LET acc == AddPage(p.fn, p.acc, k)
    IN  IF HasNextToken(k) THEN [p EXCEPT !.pc = "collecting", !.page = k, !.acc = acc]
        ELSE LeaveTry([p EXCEPT !.acc = acc], "collected", CollectedReturn(p.fn, acc))

\* The finally clause with a delete_object that raised, were the exception
\* not caught.
FinallyUncaught(p, deleted) ==
    [p EXCEPT !.pc = "done", !.deletes = p.deletes + 1,
              !.temp = p.temp /\ ~deleted, !.deleteRaised = ~deleted,
              !.result = IF deleted THEN p.outcome ELSE Raise("delete_object")]

\* The finally clause: delete_object is called once, and its exception is
\* passed over; the call ends as the try block was left.
Finally(p, deleted) ==
    [p EXCEPT !.pc = "done", !.deletes = p.deletes + 1,
              !.temp = p.temp /\ ~deleted, !.deleteRaised = ~deleted,
              !.result = p.outcome]

\* The call starts: the secrets are read and the clients made, which may
\* raise before the try block is entered.
CallExtractFromPdf ==
    /\ pdf.pc = "idle"
    /\ \E ok \in BOOLEAN :
          pdf' = [pc |-> IF ok THEN "upload" ELSE "done", fn |-> pdf.fn,
                  uploadTried |-> FALSE, temp |-> FALSE, waited |-> 0, page |-> 0,
                  acc |-> NothingCollected(pdf.fn), at |-> IF ok THEN "" ELSE "raised",
                  outcome |-> Raise("secrets"), deletes |-> 0, deleteRaised |-> FALSE,
                  result |-> Raise("secrets")]
    /\ UNCHANGED <<doc, exLast, compareVars, analyzeVars, storeVars>>

\* Step 1, s3.put_object: a call that raised may have stored the object.
PutTempObject ==
    /\ pdf.pc = "upload"
    /\ \E ok \in BOOLEAN, stored \in BOOLEAN :
          pdf' = IF ok THEN [pdf EXCEPT !.pc = "start", !.uploadTried = TRUE, !.temp = TRUE]
                 ELSE LeaveTry([pdf EXCEPT !.uploadTried = TRUE, !.temp = stored],
                               "raised", Raise("put_object"))
    /\ UNCHANGED <<doc, exLast, compareVars, analyzeVars, storeVars>>

\* Step 2, start_document_text_detection or start_document_analysis.
StartTextractJob ==
    /\ pdf.pc = "start"
    /\ \E ok \in BOOLEAN :
          pdf' = IF ok THEN [pdf EXCEPT !.pc = "polling"]
                 ELSE LeaveTry(pdf, "raised", Raise("start"))
    /\ UNCHANGED <<doc, exLast, compareVars, analyzeVars, storeVars>>

\* Step 3, one turn of the polling loop, with what follows when the loop
\* is left.
PollTextractJob ==
    /\ pdf.pc = "polling"
    /\ pdf.waited < MaxWaitOf(pdf.fn)
    /\ \/ pdf' = LeaveTry(pdf, "raised", Raise("get"))
       \/ \E status \in JobStatuses :
             pdf' = IF status = "SUCCEEDED" THEN AfterResultPage(pdf, 1)
                    ELSE IF status = "FAILED"
                         THEN LeaveTry(pdf, "failed", EmptyReturn(pdf.fn))
                    ELSE IF pdf.waited + PollSleepOf(pdf.fn) < MaxWaitOf(pdf.fn)
                         THEN [pdf EXCEPT !.waited = pdf.waited + PollSleepOf(pdf.fn)]
                    ELSE LeaveTry([pdf EXCEPT !.waited = pdf.waited + PollSleepOf(pdf.fn)],
                                  "expired", EmptyReturn(pdf.fn))
    /\ UNCHANGED <<doc, exLast, compareVars, analyzeVars, storeVars>>

\* Step 4, one further turn of the collecting loop: the request with the
\* NextToken.
GetNextResultPage ==
    /\ pdf.pc = "collecting"
    /\ \/ pdf' = LeaveTry(pdf, "raised", Raise("get"))
       \/ pdf' = AfterResultPage(pdf, pdf.page + 1)
    /\ UNCHANGED <<doc, exLast, compareVars, analyzeVars, storeVars>>

\* The finally clause, step 5 of extract_text_from_pdf.
DeleteTempObject ==
    /\ pdf.pc = "finally"
    /\ \E deleted \in BOOLEAN : pdf' = Finally(pdf, deleted)
    /\ UNCHANGED <<doc, exLast, compareVars, analyzeVars, storeVars>>

InitCleanup ==
    /\ \E fn \in Extractors :
          /\ pdf = [pc |-> "idle", fn |-> fn]
          /\ doc \in JobDocs(fn)
    /\ exLast = NoCall
    /\ CompareIdle /\ AnalyzeIdle /\ StoreIdle

NextCleanup ==
    \/ CallExtractFromPdf
    \/ PutTempObject
    \/ StartTextractJob
    \/ PollTextractJob
    \/ GetNextResultPage
    \/ DeleteTempObject

SpecCleanup == InitCleanup /\ [][NextCleanup]_vars

-----------------------------------------------------------------------------
(* Properties *)

Range(s) == {s[k] : k \in 1..Len(s)}

OfType(changes, type) == {c \in Range(changes) : c.change_type = type}

\* The records of a change list, with their positions, of one change type.
At(changes, type) == {k \in 1..Len(changes) : changes[k].change_type = type}

FilingsCalled == cfLast.op = "compare_filings"
ReportsCalled == crLast.op = "compare_reports"
MatchCalled == mbLast.op = "match_blocks"

\* The accepted (latest, prior) pairs of a compare_filings call.
Pairs(call) == {<<call.matches[k][1], call.matches[k][2]>> : k \in 1..Len(call.matches)}

\* C1: in compare_filings no latest and no prior position occurs in two
\* accepted matches, and before the top_n cut every prior position is either
\* matched or in exactly one REMOVED record (never both), and every latest
\* position is either matched or in exactly one NEW record (never both).
C1_MatchingExclusive ==
    FilingsCalled =>
        LET m == cfLast.matches
            ch == cfLast.all_changes
            removedAt(j) == {k \in At(ch, "REMOVED") : ch[k].prior_block = Some(j)}
            newAt(i) == {k \in At(ch, "NEW") : ch[k].latest_block = Some(i)}
        IN  /\ \A x, y \in 1..Len(m) :
                  x # y => m[x][1] # m[y][1] /\ m[x][2] # m[y][2]
            /\ \A j \in 1..Len(prior) :
                  IF j \in MatchedPrior(m) THEN removedAt(j) = {}
                  ELSE Cardinality(removedAt(j)) = 1
            /\ \A i \in 1..Len(latest) :
                  IF i \in MatchedLatest(m) THEN newAt(i) = {}
                  ELSE Cardinality(newAt(i)) = 1
            /\ \A k \in At(ch, "REMOVED") : ch[k].prior_block[1] \in 1..Len(prior)
            /\ \A k \in At(ch, "NEW") : ch[k].latest_block[1] \in 1..Len(latest)

\* A call in which a candidate pair was refused because one of its blocks
\* was already matched, and which reports a NEW and a REMOVED block.
C1_Witness ==
    /\ FilingsCalled
    /\ Len(cfLast.matches) >= 1
    /\ Len(cfLast.candidates) > Len(cfLast.matches)
    /\ At(cfLast.all_changes, "NEW") # {}
    /\ At(cfLast.all_changes, "REMOVED") # {}

\* The positions of the blocks a compare_filings call reports with a type.
Reported(call, type) ==
    {IF type = "NEW" THEN c.latest_block ELSE c.prior_block : c \in OfType(call.changes, type)}

NotCut(call) == call.top_n >= Len(call.all_changes)

\* C6: when compare_filings is called again on the same two reports with a
\* sim_threshold at least as high (top_n cutting neither list), the accepted
\* pairs of the second call are among those of the first, and every block
\* the first call reports NEW or REMOVED the second reports so too.
C6_ThresholdMonotone ==
    [][ ( /\ FilingsCalled
          /\ cfLast'.op = "compare_filings"
          /\ RLe(cfLast.sim_threshold, cfLast'.sim_threshold)
          /\ NotCut(cfLast)
          /\ NotCut(cfLast') )
        => /\ Pairs(cfLast') \subseteq Pairs(cfLast)
           /\ Reported(cfLast, "NEW") \subseteq Reported(cfLast', "NEW")
           /\ Reported(cfLast, "REMOVED") \subseteq Reported(cfLast', "REMOVED") ]_vars

\* A call at the highest threshold that left unmatched a pair the default
\* threshold accepts.
C6_Witness ==
    /\ FilingsCalled
    /\ cfLast.sim_threshold = Pct(80)
    /\ NotCut(cfLast)
    /\ Pairs(cfLast) # Pairs(compare_filings(prior, latest, DefaultSimThreshold,
                                                  cfLast.identical_threshold, cfLast.top_n))

\* NEW, then REMOVED, then MODIFIED; inside a type, scores do not increase.
Ordered(changes) ==
    \A i, j \in 1..Len(changes) :
        i < j =>
            \/ TypeOrder(changes[i].change_type) < TypeOrder(changes[j].change_type)
            \/ /\ changes[i].change_type = changes[j].change_type
               /\ changes[i].change_score >= changes[j].change_score

C10_IdenticalReportsNoChange ==
    (FilingsCalled /\ prior = latest) =>
        /\ Len(cfLast.matches) = Len(latest)
        /\ \A k \in 1..Len(cfLast.matches) : cfLast.matches[k][3] = One
        /\ cfLast.all_changes = <<>>
        /\ cfLast.changes = <<>>

\* Identical reports that hold the same block twice.
C10_Witness ==
    /\ FilingsCalled
    /\ prior = latest
    /\ Len(latest) >= 2
    /\ latest[1] = latest[2]

\* C17: normalize_text applied to a text it returned gives that text back;
\* the second pass of a text through normalize_text changes nothing.
C17_NormalizeIdempotent ==
    /\ exLast.op = "normalize_text" => normalize_text(exLast.text) = exLast.text
    /\ exLast.op = "normalize_text_again" => exLast.text = normalize_text(doc)

\* A text whose blanks around a newline run, non-breaking spaces and
\* newline run were all rewritten by the first pass, and which has been
\* passed through normalize_text a second time.
C17_Witness ==
    /\ exLast.op = "normalize_text_again"
    /\ \E i \in 1..Len(doc) : doc[i] = NBSP
    /\ \E i \in 1..(Len(doc) - 2) : doc[i] = "\n" /\ doc[i + 1] = "\n" /\ doc[i + 2] = "\n"
    /\ exLast.text # <<>>
    /\ exLast.text # doc

\* C21: in compare_filings an accepted pair has a MODIFIED record, exactly
\* one, if and only if its similarity is below identical_threshold; a pair
\* at or above identical_threshold has no change record of any type, so
\* neither of its blocks is reported NEW or REMOVED; and every MODIFIED
\* record is that of an accepted pair below the threshold.
C21_ModifiedIffBelowIdentical ==
    FilingsCalled =>
        LET m == cfLast.matches
            ch == cfLast.all_changes
            modifiedOf(k) == {c \in At(ch, "MODIFIED") :
                                /\ ch[c].latest_block = Some(m[k][1])
                                /\ ch[c].prior_block = Some(m[k][2])}
            anyOf(k) == {c \in 1..Len(ch) :
                           \/ ch[c].latest_block = Some(m[k][1])
                           \/ ch[c].prior_block = Some(m[k][2])}
        IN  /\ \A k \in 1..Len(m) :
                  IF RLt(m[k][3], cfLast.identical_threshold)
                  THEN Cardinality(modifiedOf(k)) = 1 /\ anyOf(k) = modifiedOf(k)
                  ELSE anyOf(k) = {}
            /\ \A c \in At(ch, "MODIFIED") :
                  \E k \in 1..Len(m) :
                      /\ c \in modifiedOf(k)
                      /\ RLt(m[k][3], cfLast.identical_threshold)
            /\ Range(cfLast.changes) \subseteq Range(ch)

\* A call that accepted two pairs of different texts, one below
\* identical_threshold and one exactly at it.
C21_Witness ==
    /\ FilingsCalled
    /\ \E k \in 1..Len(cfLast.matches) :
          /\ cfLast.matches[k][3] = cfLast.identical_threshold
          /\ cfLast.matches[k][3] # One
    /\ \E k \in 1..Len(cfLast.matches) :
          RLt(cfLast.matches[k][3], cfLast.identical_threshold)
    /\ At(cfLast.all_changes, "MODIFIED") # {}

\* The matches of "item\s*\d" in the 2000 characters of d that start with
\* paragraph k, as <<paragraph, place in it>>.
MentionsAfter(d, k) ==
    {jo \in UNION {{<<j, o>> : o \in MentionOffsets(d[j])} : j \in 1..Len(d)} :
        /\ Offset(d, jo[1]) + jo[2] >= Offset(d, k)
        /\ Offset(d, jo[1]) + jo[2] + MentionLen <= Offset(d, k) + 2000}

\* C23: _locate_item1a_range returns None exactly when the text has no
\* "Item 1A ... Risk Factors" match; otherwise its start is the end of the
\* first match whose following 2000 characters hold at most 5 matches of
\* "Item <digit>", and the end of the last match when no match is such; so
\* with one match in a dense table of contents and the real heading after
\* it, the start is at the real heading.
C23_StartSkipsToc ==
    exLast.op = "_extract_risks_from_text_fallback" =>
        LET headings == {k \in 1..Len(doc) : doc[k].kind = "item1a"}
            sparse == {k \in headings : Cardinality(MentionsAfter(doc, k)) <= 5}
            chosen == IF sparse # {} THEN Min(sparse)
                      ELSE CHOOSE k \in headings : \A j \in headings : j <= k
        IN  IF headings = {} THEN exLast.range = None
            ELSE /\ exLast.range # None
                 /\ exLast.range[1][1] = Offset(doc, chosen) + doc[chosen].len

\* A text whose first Item 1A match stands in a table of contents with more
\* than five entries and whose second is the real heading; the start
\* returned is the end of the second.
C23_Witness ==
    /\ exLast.op = "_extract_risks_from_text_fallback"
    /\ Len(doc) = 4
    /\ doc[1] = Item1AHeading /\ doc[2] = TocLine /\ doc[3] = TocLine
    /\ doc[4] = Item1AHeading
    /\ exLast.range = Some(<<TextLen(doc), TextLen(doc)>>)

\* C25: when extract_item1a_risks groups titles with _group_hierarchical,
\* the categories being in the order of their positions, every sub-risk
\* title stands exactly once in the groups returned: in the group of the
\* last category at or before its position, or in the "General Risks" group
\* when it comes before the first category; the groups hold nothing else,
\* and none has an empty sub_risks list.
C25_GroupedUnderNearestCategory ==
    ( /\ exLast.op = "extract_item1a_risks"
      /\ exLast.strategy = "hierarchical"
      /\ \A i, j \in 1..Len(exLast.categories) :
            i < j => exLast.categories[i].pos <= exLast.categories[j].pos )
    => LET cats == exLast.categories
           subs == exLast.subrisk_items
           groups == exLast.blocks
           places(t) == {gk \in UNION {{<<g, k>> : k \in 1..Len(groups[g].sub_risks)} :
                                            g \in 1..Len(groups)} :
                            groups[gk[1]].sub_risks[gk[2]] = t.text}
           before(t) == {i \in 1..Len(cats) : cats[i].pos <= t.pos}
           home(t) == IF before(t) = {} THEN Some(GeneralRisks)
                      ELSE Some(cats[CHOOSE i \in before(t) : \A j \in before(t) : j <= i].text)
       IN  /\ \A k \in 1..Len(subs) :
                 /\ Cardinality(places(subs[k])) = 1
                 /\ \A gk \in places(subs[k]) : groups[gk[1]].category = home(subs[k])
           /\ \A g \in 1..Len(groups) :
                 /\ groups[g].sub_risks # <<>>
                 /\ \A k \in 1..Len(groups[g].sub_risks) :
                       \E t \in 1..Len(subs) : subs[t].text = groups[g].sub_risks[k]
           /\ \A g, h \in 1..Len(groups) : g # h => groups[g].category # groups[h].category

\* A grouping with a title before the first category, a category with a
\* title under it and a category with none.
C25_Witness ==
    /\ exLast.op = "extract_item1a_risks"
    /\ exLast.strategy = "hierarchical"
    /\ Len(exLast.categories) = 2
    /\ Len(exLast.subrisk_items) = 2
    /\ Len(exLast.blocks) = 2
    /\ exLast.blocks[1].category = Some(GeneralRisks)

\* C30: _classify_tables puts each table_index in at most one category and
\* at most two tables in a category, sets found exactly for the categories
\* with tables, and fills the categories in priority order: a table that
\* reaches the threshold for a category and went neither to an earlier
\* category nor to this one was passed over for two tables of this category
\* of at least its confidence.
C30_ClassifiedOnceByPriority ==
    exLast.op = "_classify_tables" =>
        LET res == exLast.result
            raw == exLast.raw_tables
            Sel(cat) == Range(res[cat].selected)
            Score(t, cat) == _score_table(t, cat, _get_nearby_text(t, doc))
            order == <<"income_statement", "balance_sheet", "cash_flow",
                       "shareholders_equity", "segment_revenue", "debt_maturity">>
            Earlier(r) == UNION {Sel(order[q]) : q \in 1..(r - 1)}
        IN  /\ DOMAIN res = Range(order)
            /\ \A cat \in DOMAIN res :
                  /\ Len(res[cat].tables) <= TopPerCategory
                  /\ Len(res[cat].selected) = Len(res[cat].tables)
                  /\ Cardinality(Sel(cat)) = Len(res[cat].selected)
                  /\ res[cat].found <=> res[cat].tables # <<>>
                  /\ \A c2 \in DOMAIN res : c2 # cat => Sel(cat) \cap Sel(c2) = {}
                  /\ \A i \in Sel(cat) : \E k \in 1..Len(raw) :
                        raw[k].table_index = i /\ Score(raw[k], cat) >= MinScoreThreshold
            /\ \A r \in 1..Len(order) : \A k \in 1..Len(raw) :
                  LET cat == order[r]
                  IN  (/\ Score(raw[k], cat) >= MinScoreThreshold
                       /\ raw[k].table_index \notin Earlier(r) \cup Sel(cat))
                      => /\ Len(res[cat].tables) = TopPerCategory
                         /\ \A i \in 1..Len(res[cat].tables) :
                               RLe(RoundedConfidence(Confidence(Score(raw[k], cat))),
                                   res[cat].tables[i].confidence)

\* Three tables reach the threshold of balance_sheet and of
\* shareholders_equity: two are balance sheets, the third is left to
\* shareholders_equity.
C30_Witness ==
    /\ exLast.op = "_classify_tables"
    /\ Len(exLast.result.balance_sheet.tables) = TopPerCategory
    /\ exLast.result.shareholders_equity.found
    /\ \E k \in 1..Len(exLast.raw_tables) :
          /\ exLast.raw_tables[k].table_index \in Range(exLast.result.shareholders_equity.selected)
          /\ _score_table(exLast.raw_tables[k], "balance_sheet",
                          _get_nearby_text(exLast.raw_tables[k], doc)) >= MinScoreThreshold

\* The paragraphs of the merged paragraphs from k on, in order.
RECURSIVE FlattenFrom(_, _)
FlattenFrom(merged, k) ==
    IF k > Len(merged) THEN <<>> ELSE merged[k] \o FlattenFrom(merged, k + 1)

\* C29: build_risk_blocks loses and duplicates no paragraph and keeps the
\* order: the paragraphs of its blocks, read block after block, are the
\* non-empty paragraphs of the text; a paragraph of 180 characters or more
\* is a block of its own, and the shorter paragraphs between two such (or
\* the ends of the text) are one block.
C29_BlocksPartitionParagraphs ==
    exLast.op = "build_risk_blocks" =>
        LET blocks == exLast.blocks
            paras == SelectSeq(doc, LAMBDA p : p # Blank)
            Short(b) == \A i \in 1..Len(b.risk_text) : b.risk_text[i].len < 180
        IN  /\ FlattenFrom([i \in 1..Len(blocks) |-> blocks[i].risk_text], 1) = paras
            /\ \A i \in 1..Len(blocks) :
                  /\ blocks[i].risk_text # <<>>
                  /\ Short(blocks[i]) \/ Len(blocks[i].risk_text) = 1
                  /\ i < Len(blocks) => ~(Short(blocks[i]) /\ Short(blocks[i + 1]))

\* A text that starts with a blank line: a paragraph of 179 characters was
\* merged with its neighbour, one of 180 is a block of its own.
C29_Witness ==
    /\ exLast.op = "build_risk_blocks"
    /\ doc # <<>> /\ doc[1] = Blank
    /\ \E i \in 1..Len(exLast.blocks) :
          /\ Len(exLast.blocks[i].risk_text) >= 2
          /\ \E j \in 1..Len(exLast.blocks[i].risk_text) :
                exLast.blocks[i].risk_text[j] = NearlyLong
    /\ \E i \in 1..Len(exLast.blocks) : exLast.blocks[i].risk_text = <<JustLong>>

\* Every result page of the job, added from page k on to acc.
RECURSIVE AllPagesFrom(_, _, _)
AllPagesFrom(fn, acc, k) ==
    IF k > Max(Len(doc), 1) THEN acc ELSE AllPagesFrom(fn, AddPage(fn, acc, k), k + 1)

\* C28: once the upload was attempted, extract_text_from_pdf and
\* extract_tables_from_pdf call delete_object exactly once before they end,
\* and not before the try block is left, on every exit (job SUCCEEDED, job
\* FAILED, wait expired, exception); and whether the deletion raised or
\* not, the call ends as the exit and the job's pages determine.
C28_TempDeletedOnceOnEveryExit ==
    /\ pdf.pc \in {"upload", "start", "polling", "collecting", "finally"} => pdf.deletes = 0
    /\ pdf.pc \in {"finally", "done"} =>
          pdf.at \in {"collected", "failed", "expired", "raised"}
    /\ (pdf.pc = "done" /\ ~pdf.uploadTried) => pdf.deletes = 0
    /\ (pdf.pc = "done" /\ pdf.uploadTried) =>
          /\ pdf.deletes = 1
          /\ pdf.at = "collected" =>
                pdf.result = CollectedReturn(pdf.fn,
                                 AllPagesFrom(pdf.fn, NothingCollected(pdf.fn), 1))
          /\ pdf.at \in {"failed", "expired"} => pdf.result = EmptyReturn(pdf.fn)
          /\ pdf.at = "raised" =>
                pdf.result \in {Raise("put_object"), Raise("start"), Raise("get")}

\* A request of extract_tables_from_pdf raised after the upload, then
\* delete_object raised too and left the object in the bucket.
C28_Witness ==
    /\ pdf.pc = "done"
    /\ pdf.fn = "extract_tables_from_pdf"
    /\ pdf.at = "raised" /\ pdf.result = Raise("get")
    /\ pdf.deleteRaised /\ pdf.temp
    /\ pdf.deletes = 1

-----------------------------------------------------------------------------
(* Statements the code does not satisfy *)

\* C2: match_blocks returns len(matched) + len(removed) = len(a) and
\* len(matched) + len(new_in_b) = len(b).
C2_CountsAddUp ==
    MatchCalled =>
        /\ Len(mbLast.matched) + Len(mbLast.removed) = Len(prior)
        /\ Len(mbLast.matched) + Len(mbLast.new_in_b) = Len(latest)

\* C3: in the risk_changes of compare_reports no prior block and no latest
\* block is referenced by more than one record.
C3_BlockInOneRecord ==
    ReportsCalled =>
        LET ch == crLast.risk_changes
        IN  \A x, y \in 1..Len(ch) :
              x # y =>
                /\ ch[x].prior_block_id # None => ch[x].prior_block_id # ch[y].prior_block_id
                /\ ch[x].latest_block_id # None => ch[x].latest_block_id # ch[y].latest_block_id

\* C4: when compare_reports produces fewer than 15 changes, every prior
\* block that no latest block consumed has a REMOVED record and every latest
\* block that consumed no prior block (its best match is missing or below
\* 0.55) has a NEW record.
C4_EveryBlockHasOutcome ==
    (ReportsCalled /\ Len(crLast.all_changes) < TopChanges) =>
        LET ch == crLast.risk_changes
        IN  /\ \A j \in 1..Len(prior) :
                  prior[j].block_id \notin crLast.used_prior =>
                      \E c \in OfType(ch, "REMOVED") : c.prior_block_id = Some(prior[j].block_id)
            /\ \A i \in 1..Len(latest) :
                  LET bm == _best_match(latest[i], prior)
                  IN  (bm[2] = None \/ RLt(bm[1], NewBelow)) =>
                      \E c \in OfType(ch, "NEW") : c.latest_block_id = Some(latest[i].block_id)

\* C5: when match_blocks is called again on the same lists with a threshold
\* at least as high, every block of a in removed stays in removed and every
\* block of b in new_in_b stays in new_in_b.
C5_MatchThresholdMonotone ==
    [][ ( /\ MatchCalled
          /\ mbLast'.op = "match_blocks"
          /\ RLe(mbLast.threshold, mbLast'.threshold) )
        => /\ Range(mbLast.removed) \subseteq Range(mbLast'.removed)
           /\ Range(mbLast.new_in_b) \subseteq Range(mbLast'.new_in_b) ]_vars

\* C8: compare_reports returns at most 15 records, and no record left out
\* of risk_changes has a strictly higher change_score than one included.
C8_TopChangesMostSignificant ==
    ReportsCalled =>
        /\ Len(crLast.risk_changes) <= TopChanges
        /\ \A o \in (Len(crLast.risk_changes) + 1)..Len(crLast.all_changes) :
              \A c \in Range(crLast.risk_changes) :
                  crLast.all_changes[o].change_score <= c.change_score

\* C9: with an empty risk_blocks list on either side, compare_filings and
\* compare_reports emit no NEW and no REMOVED record.
C9_EmptyReportShortCircuits ==
    (prior = <<>> \/ latest = <<>>) =>
        /\ FilingsCalled =>
              At(cfLast.changes, "NEW") = {} /\ At(cfLast.changes, "REMOVED") = {}
        /\ ReportsCalled =>
              At(crLast.risk_changes, "NEW") = {} /\ At(crLast.risk_changes, "REMOVED") = {}

\* C18: on the token-set path title_sim is symmetric and gives 1.0 for a
\* title compared with itself, for every title match_blocks compares,
\* empty ones included.
C18_TitleSimContract ==
    MatchCalled =>
        \A x \in Range(prior) \cup Range(latest) :
            /\ title_sim(x.title, x.title) = One
            /\ \A y \in Range(prior) \cup Range(latest) :
                  title_sim(x.title, y.title) = title_sim(y.title, x.title)

\* <<li, pi>> pairs in lexicographic order.
PairLess(li, pi, lj, pj) == li < lj \/ (li = lj /\ pi < pj)

\* C19: compare_filings considers its candidates in descending similarity
\* and, among candidates of equal similarity, the lexicographically lower
\* (latest, prior) pair first; so the first accepted match is the lowest
\* pair among those of highest similarity.
C19_TiesLowerPairFirst ==
    FilingsCalled =>
        LET c == cfLast.candidates
            m == cfLast.matches
        IN  /\ \A x, y \in 1..Len(c) :
                  x < y =>
                      \/ RGt(c[x][1], c[y][1])
                      \/ c[x][1] = c[y][1] /\ PairLess(c[x][2], c[x][3], c[y][2], c[y][3])
            /\ m # <<>> =>
                  \A k \in 1..Len(c) :
                      \/ RLt(c[k][1], m[1][3])
                      \/ <<c[k][2], c[k][3]>> = <<m[1][1], m[1][2]>>
                      \/ PairLess(m[1][1], m[1][2], c[k][2], c[k][3])

\* C20: every (latest, prior) pair whose similarity is at least
\* sim_threshold is a candidate of compare_filings, and when it is the only
\* pair of the two reports it is accepted as a match.
C20_ThresholdInclusive ==
    FilingsCalled =>
        /\ \A i \in 1..Len(latest), j \in 1..Len(prior) :
              LET sim == _similarity(latest[i].risk_text, prior[j].risk_text)
              IN  RGe(sim, cfLast.sim_threshold) =>
                      <<sim, i, j>> \in Range(cfLast.candidates)
        /\ ( /\ Len(latest) = 1
             /\ Len(prior) = 1
             /\ RGe(_similarity(latest[1].risk_text, prior[1].risk_text),
                    cfLast.sim_threshold) )
           => /\ Len(cfLast.matches) = 1
              /\ At(cfLast.all_changes, "NEW") = {}
              /\ At(cfLast.all_changes, "REMOVED") = {}

\* C16: extract_text_from_pdf never returns, for a job that FAILED or that
\* was not finished when the wait expired, the value it returns for a job
\* that succeeded without text; and a failed job and an expired wait are
\* told apart by the value returned.
C16_PdfOutcomesDistinct ==
    pdf.pc = "done" =>
        /\ pdf.at \in {"failed", "timeout"} => pdf.returned # JoinNewline(<<>>)
        /\ pdf.at = "failed" => pdf.returned # Returned(<<>>, "timeout").returned

\* C12: when an Item 1A section is located and holds text under its
\* heading, _extract_risks_from_text_fallback and segment_risk_blocks return
\* at least one block, and exactly one when every paragraph of the section
\* is under 40 characters.
C12_SegmenterNeverEmpty ==
    ( /\ exLast.op \in {"_extract_risks_from_text_fallback", "segment_risk_blocks"}
      /\ exLast.located
      /\ exLast.section # <<>> )
    => /\ Len(exLast.blocks) >= 1
       /\ (\A k \in 1..Len(exLast.section) : exLast.section[k].len < ParaAbove)
              => Len(exLast.blocks) = 1

\* C11: when the uploaded document has no Item 1A heading, Run Analyze
\* assembles and saves no report: afterwards the library holds no record of
\* that run, and no saved report has blocks built by the FALLBACK_TOP
\* locator from text outside Item 1A.
C11_NoAnchorNoReport ==
    /\ ( /\ anLast.op = "analyze"
         /\ \A k \in 1..Len(doc) : doc[k].kind # "item1a" )
       => \A k \in 1..Len(library.index) : library.index[k].record_id # anLast.record_id
    /\ \A path \in DOMAIN library.files :
          path[1] = "reports" =>
              library.files[path].company_overview.item1a_locator # <<"FALLBACK_TOP">>

\* C14: list_records() never holds two records with the same company,
\* year and filing_type, and the html and report files of the library are
\* those of the records listed.
C14_UpsertReplaces ==
    LET recs == list_records(library)
    IN  /\ \A i, j \in 1..Len(recs) :
              i # j => <<recs[i].company, recs[i].year, recs[i].filing_type>>
                       # <<recs[j].company, recs[j].year, recs[j].filing_type>>
        /\ \A path \in DOMAIN library.files :
              \E k \in 1..Len(recs) : path \in {recs[k].html_path, recs[k].report_path}

\* C13: after any run of add_record and delete_record calls, one after the
\* other, the index holds at most one record per company, year and
\* filing_type, and every source-file or result object of the bucket
\* belongs to a record_id of the index.
C13_StoreReplaces ==
    /\ \A i, j \in 1..Len(bucket.index) :
          i # j => ~SameFiling(bucket.index[i], bucket.index[j].company,
                               bucket.index[j].year, bucket.index[j].filing_type)
    /\ \A key \in bucket.objects :
          \E k \in 1..Len(bucket.index) : bucket.index[k].record_id = key[2]

\* C15: when two add_record calls for different filings have both ended,
\* however their steps interleaved, the index holds the record of each.
C15_BothRecordsKept ==
    (DOMAIN workers = Workers /\ \A w \in Workers : workers[w].pc = "done")
        => \A w \in Workers :
              \E k \in 1..Len(bucket.index) :
                  SameFiling(bucket.index[k], workers[w].company, workers[w].year,
                             workers[w].filing_type)

\* round(x) of Python for x = n/10, n >= 0: to the nearest integer, a half
\* to the even one.
RoundTenths(n) ==
    LET q == n \div 10
        r == n % 10
    IN  IF r > 5 \/ (r = 5 /\ q % 2 = 1) THEN q + 1 ELSE q

\* A ratio to three decimals, in thousandths.
Thousandths(sim) == (2000 * sim[1] + sim[2]) \div (2 * sim[2])

\* C22: every MODIFIED record of compare_filings has, for the similarity s
\* of its pair taken to three decimals, the change_score
\* round((1 - s) * 100), or 5 when that is smaller; the score is never 0.
C22_ScoreIsRounded ==
    FilingsCalled =>
        \A c \in At(cfLast.all_changes, "MODIFIED") :
            \A k \in 1..Len(cfLast.matches) :
                (/\ cfLast.all_changes[c].latest_block = Some(cfLast.matches[k][1])
                 /\ cfLast.all_changes[c].prior_block = Some(cfLast.matches[k][2]))
                => /\ cfLast.all_changes[c].change_score =
                          Max(RoundTenths(1000 - Thousandths(cfLast.matches[k][3])),
                              MinModifiedScore)
                   /\ cfLast.all_changes[c].change_score # 0

\* C24: extract_item1a_risks returns the groups of the bold/italic strategy
\* only when that strategy found at least 3 distinct titles in the section;
\* with fewer than 3 it returns what _extract_risks_from_text_fallback
\* returns for the text.
C24_TypographicNeedsThree ==
    (exLast.op = "extract_item1a_risks" /\ exLast.located) =>
        /\ exLast.strategy \in {"hierarchical", "flat"} => Len(exLast.unique) >= 3
        /\ Len(exLast.unique) < 3 =>
              exLast.blocks = _extract_risks_from_text_fallback(_full_text(doc))

\* The keywords of rule r that occur in the text.
KeywordCount(text, r) ==
    Cardinality({k \in THEME_RULES[r][2] :
                    KeywordIn(k, [i \in 1..Len(text) |-> LowerWord(text[i])])})

\* C26: _infer_theme gives a block the theme of the rule with the most
\* keywords occurring in the text, the earlier rule of THEME_RULES when two
\* have as many, and "other" exactly when no keyword of any rule occurs.
C26_ThemeOfMostKeywords ==
    exLast.op = "_infer_theme" =>
        LET rules == 1..Len(THEME_RULES)
            best == {r \in rules : \A q \in rules :
                                       KeywordCount(doc, q) <= KeywordCount(doc, r)}
        IN  IF \A r \in rules : KeywordCount(doc, r) = 0
            THEN exLast.theme = "other"
            ELSE exLast.theme = THEME_RULES[Min(best)][1]

\* C27: when an add_record call has ended with an exception of an S3 write
\* and no call is under way, every record of the index has a result object
\* that get_result returns.
C27_FailedAddKeepsResults ==
    ( /\ \E w \in DOMAIN workers : workers[w].pc = "failed"
      /\ \A w \in DOMAIN workers : workers[w].pc \in {"done", "failed"} )
    => \A k \in 1..Len(bucket.index) :
           get_result(bucket, bucket.index[k].record_id) # None

=============================================================================
